---- MODULE Spec2Model ----
(***************************************************************************)
(* Market-data acquisition and validation of src/modules/data_engine.py.   *)
(*                                                                         *)
(* A DataFrame is a record                                                 *)
(*   [cols : set of column names, idx : name/kind of the index,            *)
(*    tz : timestamps carry a timezone, rows : sequence of rows]           *)
(* and a row is [wti, usd_brl, pp_fob_usd, date]; "date" holds the row's   *)
(* timestamp whether it is stored in a column or in the index.  idx is     *)
(* "range" (RangeIndex), "dt" (unnamed DatetimeIndex) or the name of a     *)
(* named DatetimeIndex ("Date", "date").                                   *)
(*                                                                         *)
(* A cell is Num(v), Null (NaN / NaT / None) or Bad (a string pandas       *)
(* cannot parse).  WTI and USD_BRL are whole units, PP_FOB_USD is in       *)
(* 1/10000 USD (1.2 USD is 12000), a timestamp is a day number relative to *)
(* the day of the call (today is 0, yesterday is -1).                      *)
(***************************************************************************)
EXTENDS Integers, Sequences, FiniteSets, TLC

VARIABLES
    \* ---- one call of validate_market_data ----
    vpc,        \* "idle" when no call is modelled, "call" before the call, "done" after it
    vIn,        \* the DataFrame passed in
    vOut,       \* what the call produced (ValidateMarketData result)
    \* ---- one call of get_market_data ----
    pc,         \* position inside get_market_data
    days_back,  \* argument
    validateArg,\* "default" (argument omitted), "true" or "false"
    df,         \* the local variable df
    whOut,      \* what tier 1 did: "none","nodb","error","empty","rows"
    whData,     \* the rows the warehouse query returned
    whTz,       \* whether their timestamps carry a timezone
    yfOut,      \* what tier 2 did: "none","error","empty","formula_error",
                \* "join_empty","joined"
    yfData,     \* what the live provider answered
    tiers,      \* sequence of upstream sources used so far, in order
    valOut,     \* "none","skipped","ok","failed"
    result,     \* [kind : "none" | "return" | "raise", exc, df]
    \* ---- one call of calculate_cost_buildup ----
    cpc,        \* "idle", "call" before the call, "done" after it
    cDf,        \* the caller's DataFrame
    cParams,    \* [ocean_freight, freight_internal, icms_pct, margin_pct]
    cOut,       \* what the call produced (calculate_cost_buildup result)
    \* ---- one call of PricingFormula.calculate_pp_fob_usd ----
    fpc,        \* "idle", "call" before the call, "done" after it
    fWti,       \* argument wti
    fVersion,   \* argument formula_version, "None" when omitted
    fOut,       \* [ok, v]: the price returned, or ok = FALSE for ValueError
    \* ---- one computation of the weekly variation of a priced series ----
    mpc,        \* "idle", "call" before the computation, "done" after it
    mOp,        \* "view_monitor" (app.py) or "check_and_send_alerts" (daily_etl.py)
    mSeries,    \* the priced series: rows [date, price] in ascending date order
    mOut,       \* [ref, figure]: the row compared against (0 if none) and the outcome
    \* ---- one call of run_backtest_validation ----
    bpc,        \* "idle", "call" before the call, "done" after it
    bIn,        \* the arguments as passed: [history, uploaded, args, sklearn]
    bHistory,   \* the caller's history_df object as it is now
    bUploaded,  \* the caller's uploaded_df object as it is now
    bOut,       \* the tuple returned: [comparison, mape, mse, msg]
    \* ---- one call of calculate_price_confidence ----
    confPc,     \* "idle", "call" before the call, "done" after it
    confDf,     \* the DataFrame passed in
    confOut,    \* the report returned
    \* ---- one call of calculate_data_quality_metrics ----
    qpc,        \* "idle", "call" before the call, "done" after it
    qDf,        \* the DataFrame passed in
    qOut,       \* the metrics returned
    \* ---- one call of sensitivity_analysis ----
    spc,        \* "idle", "call" before the call, "done" after it
    sBase,      \* base_params: a function from parameter names to values
    sRanges,    \* ranges: a sequence of [param, min_delta, max_delta], names distinct
    sMarket,    \* what get_market_data does in this call: [kind, df]
    sOut,       \* [kind, rows, warned]: the table returned and the names warned about
    \* ---- the rate limiter of src/modules/rate_limiter.py, for one user ----
    now,                \* the clock, in seconds
    rate_limit_cache,   \* _rate_limit_cache["user:<id>"]: the request times recorded
    calls               \* the calls made so far: [action, at, allowed]

valVars   == <<vpc, vIn, vOut>>
fetchVars == <<pc, days_back, validateArg, df, whOut, whData, whTz, yfOut, yfData, tiers,
              valOut, result>>
costVars  == <<cpc, cDf, cParams, cOut>>
formulaVars == <<fpc, fWti, fVersion, fOut>>
variationVars == <<mpc, mOp, mSeries, mOut>>
backtestVars == <<bpc, bIn, bHistory, bUploaded, bOut>>
confVars  == <<confPc, confDf, confOut>>
qualVars  == <<qpc, qDf, qOut>>

\* the calls modelled after calculate_price_confidence
sensVars  == <<spc, sBase, sRanges, sMarket, sOut>>
rateVars  == <<now, rate_limit_cache, calls>>
lateVars  == <<qualVars, sensVars, rateVars>>

\* the calls of the pricing engine other than the two above
engineVars == <<costVars, formulaVars, variationVars, backtestVars, confVars, lateVars>>

vars      == <<valVars, fetchVars, engineVars>>

----------------------------------------------------------------------------
(* Bounds of the model *)

MaxRows      == 4   \* rows of a frame passed to validate_market_data
MaxColRows   == 1   \* rows of the frames used for the column-presence cases
MaxSrcRows   == 2   \* rows a warehouse query returns
MaxDaysBack  == 1   \* largest days_back
MaxCostRows  == 2   \* rows of a frame priced with arbitrary parameters
MaxTrendRows == 8   \* rows of a frame priced for its trailing average
MaxQuote     == 80  \* largest reference index price passed to the pricing formula
MaxSpan      == 8   \* days between the first and the last point of a compared series
MaxUpload    == 3   \* rows of an uploaded table of observed prices
MaxConfRows  == 3   \* rows of a frame passed to calculate_price_confidence
MaxQualRows  == 3   \* rows of a frame passed to calculate_data_quality_metrics
MaxRanges    == 3   \* parameters named in the ranges of a sensitivity analysis
MaxCalls     == 7   \* calls of the rate limiter in one run

----------------------------------------------------------------------------
(* Cells *)

Num(v) == [k |-> "num", v |-> v]
Null   == [k |-> "null", v |-> 0]
Bad    == [k |-> "bad", v |-> 0]

IsNull(c) == c.k = "null"

\* pd.to_numeric(errors='coerce') / pd.to_datetime(errors='coerce')
Coerce(c) == IF c.k = "num" THEN c ELSE Null

CoerceRow(r) ==
    [wti |-> Coerce(r.wti), usd_brl |-> Coerce(r.usd_brl),
     pp_fob_usd |-> Coerce(r.pp_fob_usd), date |-> Coerce(r.date)]

CoerceRows(rows) == [i \in 1..Len(rows) |-> CoerceRow(rows[i])]

Frame(cols, idx, tz, rows) == [cols |-> cols, idx |-> idx, tz |-> tz, rows |-> rows]
EmptyFrame == Frame({}, "range", FALSE, <<>>)

\* DataFrame.empty: any axis of length 0
IsEmpty(f) == f.rows = <<>> \/ f.cols = {}

----------------------------------------------------------------------------
(* validate_market_data *)

required_cols_lower == {"wti", "usd_brl", "pp_fob_usd", "date"}

\* str.lower() on the column names the model uses
Lower(c) ==
    CASE c = "WTI" -> "wti"
      [] c = "USD_BRL" -> "usd_brl"
      [] c = "PP_FOB_USD" -> "pp_fob_usd"
      [] c = "Date" -> "date"
      [] OTHER -> c

LowerCols(cols) == {Lower(c) : c \in cols}

MissingCols(cols) == required_cols_lower \ LowerCols(cols)

\* df.rename(columns=col_mapping): required columns take their lower-case name
RenameLower(cols) ==
    {IF Lower(c) \in required_cols_lower THEN Lower(c) ELSE c : c \in cols}

Field(r, col) ==
    CASE col = "wti" -> r.wti
      [] col = "usd_brl" -> r.usd_brl
      [] col = "pp_fob_usd" -> r.pp_fob_usd
      [] col = "date" -> r.date

\* the non-null numbers of a column, in row order
RECURSIVE ColValues(_, _)
ColValues(rows, col) ==
    IF rows = <<>> THEN <<>>
    ELSE (IF IsNull(Field(Head(rows), col)) THEN <<>> ELSE <<Field(Head(rows), col).v>>)
         \o ColValues(Tail(rows), col)

RECURSIVE InsertSorted(_, _)
InsertSorted(x, s) ==
    IF s = <<>> THEN <<x>>
    ELSE IF x <= Head(s) THEN <<x>> \o s
    ELSE <<Head(s)>> \o InsertSorted(x, Tail(s))

RECURSIVE SortInts(_)
SortInts(s) == IF s = <<>> THEN <<>> ELSE InsertSorted(Head(s), SortInts(Tail(s)))

\* 4 * Series.quantile(num/4) with linear interpolation over the sorted non-null
\* values s (non-empty): position (n-1)*num/4, fraction in quarters
Quantile4(s, num) ==
    LET n   == Len(s)
        pos == (n - 1) * num
        lo  == pos \div 4
        fr  == pos % 4
    IN IF fr = 0 THEN 4 * s[lo + 1]
       ELSE 4 * s[lo + 1] + fr * (s[lo + 2] - s[lo + 1])

\* is value x outside [Q1 - 1.5*IQR, Q3 + 1.5*IQR], given 4*Q1 and 4*Q3 (the
\* comparison is made on 8 times each side); never when IQR is not positive
IsOutlier(x, q1, q3) ==
    /\ q3 - q1 > 0
    /\ \/ 8 * x < 2 * q1 - 3 * (q3 - q1)
       \/ 8 * x > 2 * q3 + 3 * (q3 - q1)

\* len(outliers) of one numeric column; 0 when the column has no numbers
\* (quantile is NaN, IQR > 0 is False)
OutlierCount(rows, col) ==
    LET s == SortInts(ColValues(rows, col))
    IN IF s = <<>> THEN 0
       ELSE LET q1 == Quantile4(s, 1)
                q3 == Quantile4(s, 3)
            IN Cardinality({i \in 1..Len(rows) :
                    /\ ~IsNull(Field(rows[i], col))
                    /\ IsOutlier(Field(rows[i], col).v, q1, q3)})

WTI_MIN == 10
WTI_MAX == 250
USD_MIN == 2
USD_MAX == 10

\* len(wti_out_of_range), len(usd_out_of_range): NaN compares False
WtiOutOfRange(rows) ==
    Cardinality({i \in 1..Len(rows) :
        /\ ~IsNull(rows[i].wti)
        /\ (rows[i].wti.v < WTI_MIN \/ rows[i].wti.v > WTI_MAX)})

UsdOutOfRange(rows) ==
    Cardinality({i \in 1..Len(rows) :
        /\ ~IsNull(rows[i].usd_brl)
        /\ (rows[i].usd_brl.v < USD_MIN \/ rows[i].usd_brl.v > USD_MAX)})

\* the warnings of the outlier and range checks, in the order the code appends them
Warn(kind, col, n) == [kind |-> kind, col |-> col, n |-> n]

OutlierWarnings(rows) ==
    LET w(col) == LET n == OutlierCount(rows, col)
                  IN IF n > 0 THEN <<Warn("outliers", col, n)>> ELSE <<>>
    IN w("wti") \o w("usd_brl") \o w("pp_fob_usd")

RangeWarnings(rows) ==
    LET nWti == WtiOutOfRange(rows)
        nUsd == UsdOutOfRange(rows)
    IN (IF nWti > 0 THEN <<Warn("range", "wti", nWti)>> ELSE <<>>)
       \o (IF nUsd > 0 THEN <<Warn("range", "usd_brl", nUsd)>> ELSE <<>>)

\* the positions drop_duplicates(subset=['date'], keep=...) keeps; NaT equals NaT
KeepFirstIdx(rows) ==
    {i \in 1..Len(rows) : \A j \in 1..(i - 1) : rows[j].date # rows[i].date}
KeepLastIdx(rows) ==
    {i \in 1..Len(rows) : \A j \in (i + 1)..Len(rows) : rows[j].date # rows[i].date}

\* the rows at the positions of keep, in their original order
RECURSIVE SelectFrom(_, _, _)
SelectFrom(rows, keep, i) ==
    IF i > Len(rows) THEN <<>>
    ELSE (IF i \in keep THEN <<rows[i]>> ELSE <<>>) \o SelectFrom(rows, keep, i + 1)

DropDuplicatesKeepFirst(rows) == SelectFrom(rows, KeepFirstIdx(rows), 1)
DropDuplicates(rows) == SelectFrom(rows, KeepLastIdx(rows), 1)

\* dropna(subset=['wti', 'usd_brl', 'date'])
DropNaOrOutOfRange(rows) ==
    SelectFrom(rows, {i \in 1..Len(rows) :
        /\ ~IsNull(rows[i].wti) /\ ~IsNull(rows[i].usd_brl) /\ ~IsNull(rows[i].date)
        /\ rows[i].wti.v >= WTI_MIN /\ rows[i].wti.v <= WTI_MAX}, 1)
DropNa(rows) ==
    SelectFrom(rows, {i \in 1..Len(rows) :
        ~IsNull(rows[i].wti) /\ ~IsNull(rows[i].usd_brl) /\ ~IsNull(rows[i].date)}, 1)

Raised(exc) == [ok |-> FALSE, exc |-> exc, df |-> EmptyFrame, warnings |-> <<>>]
Returned(f, w) == [ok |-> TRUE, exc |-> "", df |-> f, warnings |-> w]

\* the steps after the column check: coercion, outlier and range warnings,
\* de-duplication, null removal, final emptiness check.  (The code's "date may
\* be the index" branch cannot run: a frame without a date column has already
\* been rejected by the column check.)
CleanNoEmptyCheck(f) ==
    LET rows0 == CoerceRows(f.rows)
        w1    == OutlierWarnings(rows0) \o RangeWarnings(rows0)
        rows1 == DropDuplicates(rows0)
        w2    == IF Len(rows1) < Len(rows0)
                 THEN <<Warn("duplicates", "date", Len(rows0) - Len(rows1))>> ELSE <<>>
        rows2 == DropNa(rows1)
        w3    == IF Len(rows2) < Len(rows1)
                 THEN <<Warn("nulls", "", Len(rows1) - Len(rows2))>> ELSE <<>>
    IN Returned(Frame(RenameLower(f.cols), f.idx, f.tz, rows2), w1 \o w2 \o w3)
Clean(f) ==
    LET rows0 == CoerceRows(f.rows)
        w1    == OutlierWarnings(rows0) \o RangeWarnings(rows0)
        rows1 == DropDuplicates(rows0)
        w2    == IF Len(rows1) < Len(rows0)
                 THEN <<Warn("duplicates", "date", Len(rows0) - Len(rows1))>> ELSE <<>>
        rows2 == DropNa(rows1)
        w3    == IF Len(rows2) < Len(rows1)
                 THEN <<Warn("nulls", "", Len(rows1) - Len(rows2))>> ELSE <<>>
    IN IF rows2 = <<>> THEN Raised("DataValidationError")
       ELSE Returned(Frame(RenameLower(f.cols), f.idx, f.tz, rows2), w1 \o w2 \o w3)

ValidateMarketData(f) ==
    IF IsEmpty(f) THEN Raised("DataValidationError")
    ELSE IF MissingCols(f.cols) # {} THEN Raised("DataValidationError")
    ELSE Clean(f)

----------------------------------------------------------------------------
(* Inputs of validate_market_data *)

NominalRow(d) ==
    [wti |-> Num(70), usd_brl |-> Num(5), pp_fob_usd |-> Num(13300), date |-> Num(d)]

SampleDays == {-1, 0}

\* a well-formed row, or one with a single field off: WTI above its range (and
\* an IQR outlier among nominal rows) or unparseable, on either day; USD_BRL
\* below its range, USD_BRL null, PP_FOB_USD null, timestamp unparseable
RowDomain ==
    UNION {{NominalRow(d),
            [NominalRow(d) EXCEPT !.wti = Num(300)],
            [NominalRow(d) EXCEPT !.wti = Bad]} : d \in SampleDays}
    \cup {[NominalRow(0) EXCEPT !.usd_brl = Num(1)],
          [NominalRow(0) EXCEPT !.usd_brl = Null],
          [NominalRow(0) EXCEPT !.pp_fob_usd = Null],
          [NominalRow(0) EXCEPT !.date = Bad]}

SeqsUpTo(S, n) == UNION {[1..k -> S] : k \in 0..n}

FullLower == {"wti", "usd_brl", "pp_fob_usd", "date"}
FullUpper == {"WTI", "USD_BRL", "PP_FOB_USD", "Date"}

\* column layouts other than the plain lower-case one: upper case, an extra
\* column, one required column absent, the timestamp kept in the index, no
\* columns at all
OtherLayouts ==
    {[cols |-> FullUpper, idx |-> "range"],
     [cols |-> FullLower \cup {"last_updated"}, idx |-> "range"],
     [cols |-> FullLower \ {"wti"}, idx |-> "range"],
     [cols |-> FullLower \ {"usd_brl"}, idx |-> "range"],
     [cols |-> FullUpper \ {"PP_FOB_USD"}, idx |-> "range"],
     [cols |-> FullLower \ {"date"}, idx |-> "range"],
     [cols |-> FullLower \ {"date"}, idx |-> "date"],
     [cols |-> {}, idx |-> "range"]}

\* frames whose column names are distinct when lower-cased
ValidateInputs ==
    {Frame(FullLower, "range", FALSE, rows) : rows \in SeqsUpTo(RowDomain, MaxRows)}
    \cup {Frame(l.cols, l.idx, FALSE, rows) :
             l \in OtherLayouts, rows \in SeqsUpTo(RowDomain, MaxColRows)}

NoResult == [kind |-> "none", exc |-> "", df |-> EmptyFrame]

\* a live-provider answer: the download failed (exception or timeout), or two
\* close-price series, each a function from the days it covers to a cell
NoAnswer == [err |-> FALSE, tz |-> FALSE, wti |-> <<>>, brl |-> <<>>]

FetchIdle ==
    /\ pc = "idle"
    /\ days_back = 0
    /\ validateArg = "default"
    /\ df = EmptyFrame
    /\ whOut = "none"
    /\ whData = <<>>
    /\ whTz = FALSE
    /\ yfOut = "none"
    /\ yfData = NoAnswer
    /\ tiers = <<>>
    /\ valOut = "none"
    /\ result = NoResult

ValidateIdle ==
    /\ vpc = "idle"
    /\ vIn = EmptyFrame
    /\ vOut = Raised("")

NoParams == [ocean_freight |-> 0, freight_internal |-> 0, icms_pct |-> 0, margin_pct |-> 0]

CostIdle ==
    /\ cpc = "idle"
    /\ cDf = EmptyFrame
    /\ cParams = NoParams
    /\ cOut = NoResult

FormulaIdle ==
    /\ fpc = "idle"
    /\ fWti = 0
    /\ fVersion = "None"
    /\ fOut = [ok |-> FALSE, v |-> 0]

NoFigure == [ref |-> 0, figure |-> "none"]

VariationIdle ==
    /\ mpc = "idle"
    /\ mOp = "none"
    /\ mSeries = <<>>
    /\ mOut = NoFigure

\* an uploaded table: its columns, whether Data holds text or datetimes,
\* whether the timestamps carry a timezone, and its rows [Data, Preco]
Upload(cols, dtype, tz, rows) == [cols |-> cols, dtype |-> dtype, tz |-> tz, rows |-> rows]

NoArgs == [wti_coef |-> 0, spread |-> 0, markup |-> 0]
NoMetric == [k |-> "null", v |-> 0, d |-> 1]
NoBacktest == [comparison |-> <<>>, mape |-> NoMetric, mse |-> NoMetric, msg |-> ""]

BacktestIdle ==
    /\ bpc = "idle"
    /\ bIn = [history |-> EmptyFrame, uploaded |-> Upload({}, "object", FALSE, <<>>),
              args |-> NoArgs, sklearn |-> TRUE]
    /\ bHistory = EmptyFrame
    /\ bUploaded = Upload({}, "object", FALSE, <<>>)
    /\ bOut = NoBacktest

NoReport ==
    [confidence_score |-> 0, data_freshness_days |-> Null, data_completeness |-> 0,
     volatility_index |-> Null, consistency_score |-> Null, recommendation |-> ""]

ConfidenceIdle ==
    /\ confPc = "idle"
    /\ confDf = EmptyFrame
    /\ confOut = NoReport

NoRange == [k |-> "null", start |-> 0, end |-> 0, days |-> 0, expected_days |-> 0]

NoMetrics ==
    [completeness |-> 0, duplicates |-> 0, date_range |-> NoRange, outliers_count |-> 0,
     freshness_days |-> Null]

QualityIdle ==
    /\ qpc = "idle"
    /\ qDf = EmptyFrame
    /\ qOut = NoMetrics

NoSensitivity == [kind |-> "none", rows |-> <<>>, warned |-> {}]

SensitivityIdle ==
    /\ spc = "idle"
    /\ sBase = <<>>
    /\ sRanges = <<>>
    /\ sMarket = [kind |-> "raise", df |-> EmptyFrame]
    /\ sOut = NoSensitivity

\* no call of the rate limiter has been made
RateIdle ==
    /\ now = 0
    /\ rate_limit_cache = <<>>
    /\ calls = <<>>

LateIdle == QualityIdle /\ SensitivityIdle /\ RateIdle

EngineIdle ==
    CostIdle /\ FormulaIdle /\ VariationIdle /\ BacktestIdle /\ ConfidenceIdle /\ LateIdle

InitValidate ==
    /\ vpc = "call"
    /\ vIn \in ValidateInputs
    /\ vOut = Raised("")
    /\ FetchIdle
    /\ EngineIdle

\* df_validated, warnings = validate_market_data(df)
ValidateCall ==
    /\ vpc = "call"
    /\ vOut' = ValidateMarketData(vIn)
    /\ vpc' = "done"
    /\ UNCHANGED <<vIn, fetchVars, engineVars>>

NextValidate == ValidateCall

SpecValidate == InitValidate /\ [][NextValidate]_vars

----------------------------------------------------------------------------
(* Properties of validate_market_data, stated over the raw input vIn *)

Parses(c) == c.k = "num"

Range(s) == {s[i] : i \in 1..Len(s)}

\* a required column is absent under every spelling
ColAbsent(f) ==
    \E c \in {"wti", "usd_brl", "pp_fob_usd", "date"} : \A x \in f.cols : Lower(x) # c

\* two raw timestamps denote the same timestamp after conversion
SameDay(a, b) == (Parses(a) /\ Parses(b) /\ a.v = b.v) \/ (~Parses(a) /\ ~Parses(b))

LastOfDay(rows, i) == \A j \in (i + 1)..Len(rows) : ~SameDay(rows[j].date, rows[i].date)

\* row i is the last of its timestamp and has a usable index, fx rate and timestamp
Survivor(rows, i) ==
    /\ LastOfDay(rows, i)
    /\ Parses(rows[i].wti) /\ Parses(rows[i].usd_brl) /\ Parses(rows[i].date)

\* what row r looks like in the output: unparseable cells are null
AsOutput(r) ==
    [wti        |-> IF Parses(r.wti) THEN r.wti ELSE Null,
     usd_brl    |-> IF Parses(r.usd_brl) THEN r.usd_brl ELSE Null,
     pp_fob_usd |-> IF Parses(r.pp_fob_usd) THEN r.pp_fob_usd ELSE Null,
     date       |-> IF Parses(r.date) THEN r.date ELSE Null]

C8_OutliersKept ==
    (vpc = "done" /\ vOut.ok) =>
        LET rows == vIn.rows
            nWti == Cardinality({i \in 1..Len(rows) :
                        Parses(rows[i].wti) /\ (rows[i].wti.v < 10 \/ rows[i].wti.v > 250)})
            nUsd == Cardinality({i \in 1..Len(rows) :
                        Parses(rows[i].usd_brl)
                        /\ (rows[i].usd_brl.v < 2 \/ rows[i].usd_brl.v > 10)})
        IN /\ \A i \in 1..Len(rows) :
                Survivor(rows, i) => AsOutput(rows[i]) \in Range(vOut.df.rows)
           /\ nWti > 0 => Warn("range", "wti", nWti) \in Range(vOut.warnings)
           /\ nUsd > 0 => Warn("range", "usd_brl", nUsd) \in Range(vOut.warnings)
           /\ \A w \in Range(vOut.warnings) : w.kind = "outliers" => w.n >= 1

\* an IQR outlier that is also out of range (WTI 300 among 70s) is in the output
C8_Witness ==
    /\ vpc = "done" /\ vOut.ok
    /\ Warn("outliers", "wti", 1) \in Range(vOut.warnings)
    /\ Warn("range", "wti", 1) \in Range(vOut.warnings)
    /\ \E j \in 1..Len(vOut.df.rows) : vOut.df.rows[j].wti = Num(300)

\* C9: output timestamps are unique, every output row is the last input row
\* of its timestamp, and a warning carries the number of rows removed as
\* duplicates (no such warning when none was removed).
C9_DedupLastWins ==
    (vpc = "done" /\ vOut.ok) =>
        LET rows    == vIn.rows
            out     == vOut.df.rows
            removed == Len(rows) - Cardinality({i \in 1..Len(rows) : LastOfDay(rows, i)})
        IN /\ \A j, k \in 1..Len(out) : j # k => out[j].date # out[k].date
           /\ \A j \in 1..Len(out) :
                \E i \in 1..Len(rows) : LastOfDay(rows, i) /\ out[j] = AsOutput(rows[i])
           /\ IF removed > 0
              THEN Warn("duplicates", "date", removed) \in Range(vOut.warnings)
              ELSE \A w \in Range(vOut.warnings) : w.kind # "duplicates"

\* two rows of one timestamp that differ, the later one in the output
C9_Witness ==
    /\ vpc = "done" /\ vOut.ok
    /\ \E w \in Range(vOut.warnings) : w.kind = "duplicates"
    /\ \E i, j \in 1..Len(vIn.rows) :
        /\ i < j
        /\ SameDay(vIn.rows[i].date, vIn.rows[j].date)
        /\ LastOfDay(vIn.rows, j)
        /\ vIn.rows[i] # vIn.rows[j]
        /\ AsOutput(vIn.rows[j]) \in Range(vOut.df.rows)
        /\ AsOutput(vIn.rows[i]) \notin Range(vOut.df.rows)

\* C10: no output row has a null in a required field (reference index, fx
\* rate, base price, timestamp), and a warning carries the number of rows
\* removed for nulls.
C10_NoNullRequiredField ==
    (vpc = "done" /\ vOut.ok) =>
        LET rows  == vIn.rows
            out   == vOut.df.rows
            nulls == Cardinality({i \in 1..Len(rows) :
                        /\ LastOfDay(rows, i)
                        /\ ~(Parses(rows[i].wti) /\ Parses(rows[i].usd_brl)
                             /\ Parses(rows[i].pp_fob_usd) /\ Parses(rows[i].date))})
        IN /\ \A j \in 1..Len(out) :
                /\ ~IsNull(out[j].wti) /\ ~IsNull(out[j].usd_brl)
                /\ ~IsNull(out[j].pp_fob_usd) /\ ~IsNull(out[j].date)
           /\ nulls > 0 => Warn("nulls", "", nulls) \in Range(vOut.warnings)


\* row i has a usable index, fx rate, base price and timestamp
FullyValid(rows, i) ==
    /\ Parses(rows[i].wti) /\ Parses(rows[i].usd_brl)
    /\ Parses(rows[i].pp_fob_usd) /\ Parses(rows[i].date)

\* C29: when the input has the required columns and, for some timestamp, a row
\* whose required fields are all usable after coercion, the call returns a
\* frame with a row of that timestamp.
C29_ValidDateKept ==
    (vpc = "done" /\ ~ColAbsent(vIn)) =>
        \A i \in 1..Len(vIn.rows) :
            FullyValid(vIn.rows, i) =>
                /\ vOut.ok
                /\ \E j \in 1..Len(vOut.df.rows) : vOut.df.rows[j].date = vIn.rows[i].date

----------------------------------------------------------------------------
(* get_market_data *)

DataCols == {"WTI", "USD_BRL", "PP_FOB_USD"}

\* validate: bool = True
ValidateFlag(arg) == arg # "false"

CURRENT_VERSION == "1.2"

\* the formula applied with the original pair 0.014 / 0.35 when no version is named
PriceWithOriginalDefault(w, formula_version) ==
    LET version == IF formula_version \in {"None", ""} THEN "1.0" ELSE formula_version
    IN  IF w <= 0 THEN [ok |-> FALSE, v |-> 0]
        ELSE CASE version = "1.0" -> [ok |-> TRUE, v |-> w * 140 + 3500]
               [] version = "1.1" -> [ok |-> TRUE, v |-> w * 145 + 3200]
               [] version = "1.2" -> [ok |-> TRUE, v |-> w * 140 + 3500 + w * 1]
               [] OTHER -> [ok |-> FALSE, v |-> 0]

\* PricingFormula.calculate_pp_fob_usd(wti, formula_version), in 1/10000 USD;
\* formula_version is "None" when the argument is omitted, and an empty string
\* counts as omitted too (formula_version or CURRENT_VERSION); ok = FALSE is the
\* ValueError
calculate_pp_fob_usd(w, formula_version) ==
    LET version == IF formula_version \in {"None", ""} THEN CURRENT_VERSION
                   ELSE formula_version
    IN  IF w <= 0 THEN [ok |-> FALSE, v |-> 0]
        ELSE CASE version = "1.0" -> [ok |-> TRUE, v |-> w * 140 + 3500]
               [] version = "1.1" -> [ok |-> TRUE, v |-> w * 145 + 3200]
               [] version = "1.2" -> [ok |-> TRUE, v |-> w * 140 + 3500 + w * 1]
               [] OTHER -> [ok |-> FALSE, v |-> 0]

\* the list of versions with a draft that has no formula
VersionsWithDraft == <<"1.0", "1.1", "1.2", "2.0">>

\* PricingFormula.list_available_versions()
list_available_versions == <<"1.0", "1.1", "1.2">>

\* PricingFormula.get_current_version()
get_current_version == CURRENT_VERSION

NoMetadata == [author |-> "", date |-> "", validation |-> ""]

\* PricingFormula.get_formula_metadata(version): author, date and validation
\* reference of a version; NoMetadata is the empty dict
get_formula_metadata(formula_version) ==
    LET version == IF formula_version \in {"None", ""} THEN CURRENT_VERSION
                   ELSE formula_version
    IN  CASE version = "1.0" ->
               [author |-> "Initial", date |-> "2024-01-01", validation |-> "backtest_2023"]
          [] version = "1.1" ->
               [author |-> "Data Team", date |-> "2024-06-01", validation |-> "backtest_2024_q1"]
          [] version = "1.2" ->
               [author |-> "Data Team", date |-> "2024-12-01", validation |-> "backtest_2024_q3"]
          [] OTHER -> NoMetadata

MOCK_WTI == 70
MOCK_USD_BRL == 5
MOCK_PP_FOB_USD == 12000

\* pd.date_range(start_date, end_date, freq='D') with the placeholder values
RECURSIVE MockRows(_, _)
MockRows(from, to) ==
    IF from > to THEN <<>>
    ELSE <<[wti |-> Num(MOCK_WTI), usd_brl |-> Num(MOCK_USD_BRL),
            pp_fob_usd |-> Num(MOCK_PP_FOB_USD), date |-> Num(from)]>>
         \o MockRows(from + 1, to)

MockFrame(days) == Frame(DataCols, "dt", FALSE, MockRows(0 - days, 0))

\* pd.concat([wti, brl], axis=1).dropna(): the days both series cover with a
\* number, ascending
RECURSIVE JoinRows(_, _, _, _)
JoinRows(w, b, from, to) ==
    IF from > to THEN <<>>
    ELSE (IF /\ from \in DOMAIN w /\ from \in DOMAIN b
             /\ ~IsNull(w[from]) /\ ~IsNull(b[from])
          THEN <<[wti |-> w[from], usd_brl |-> b[from], pp_fob_usd |-> Null,
                  date |-> Num(from)]>>
          ELSE <<>>)
         \o JoinRows(w, b, from + 1, to)

WithPrice(r) ==
    [r EXCEPT !.pp_fob_usd = Num(calculate_pp_fob_usd(r.wti.v, "None").v)]

\* wti.empty or brl.empty
ProviderEmptyAlways(y) == TRUE
ProviderEmpty(y) == DOMAIN y.wti = {} \/ DOMAIN y.brl = {}

Fetched(out, f) == [raised |-> FALSE, out |-> out, df |-> f]

\* the try block of _fallback_yahoo_finance once both downloads answered: the
\* placeholder when a series is empty or the formula raises, else the join
FallbackBody(days, y) ==
    IF ProviderEmpty(y) THEN Fetched("empty", MockFrame(days))
    ELSE LET rows == JoinRows(y.wti, y.brl, 0 - days, 0)
         IN IF \E i \in 1..Len(rows) :
                    ~calculate_pp_fob_usd(rows[i].wti.v, CURRENT_VERSION).ok
            THEN Fetched("formula_error", MockFrame(days))
            ELSE Fetched(IF rows = <<>> THEN "join_empty" ELSE "joined",
                         Frame(DataCols, "Date", y.tz, [i \in 1..Len(rows) |-> WithPrice(rows[i])]))

\* _fallback_yahoo_finance(days_back) given the provider's answer y: an
\* exception of a download is caught and answered with the placeholder
FallbackReraise(days, y) ==
    IF y.err THEN [raised |-> TRUE, out |-> "error", df |-> EmptyFrame]
    ELSE FallbackBody(days, y)
FallbackYahooFinance(days, y) ==
    IF y.err THEN Fetched("error", MockFrame(days))
    ELSE FallbackBody(days, y)

\* stable sort of rows by timestamp (sort_index)
RECURSIVE InsertByDate(_, _)
InsertByDate(r, s) ==
    IF s = <<>> THEN <<r>>
    ELSE IF r.date.v < Head(s).date.v THEN <<r>> \o s
    ELSE <<Head(s)>> \o InsertByDate(r, Tail(s))

RECURSIVE SortByDate(_)
SortByDate(rows) ==
    IF rows = <<>> THEN <<>>
    ELSE InsertByDate(rows[Len(rows)], SortByDate(SubSeq(rows, 1, Len(rows) - 1)))

\* the frame tier 1 builds from the documents: columns renamed, timezone
\* removed from Date, Date made the index, sorted
TzLocalizeNone(z) == FALSE

WarehouseFrame(rows, z) ==
    Frame(DataCols \cup {"last_updated"}, "Date",
          IF z THEN TzLocalizeNone(z) ELSE z, SortByDate(rows))

\* if df.empty: (tier 2 is needed)
NeedsFallbackAlways(f) == TRUE
NeedsFallback(f) == IsEmpty(f)

\* index.name and 'date' in index.name.lower()
IndexNamedDate(f) == f.idx \in {"Date", "date"}

\* df_for_validation: the named date index becomes a column
ForValidation(f) ==
    IF IndexNamedDate(f) THEN Frame(f.cols \cup {f.idx}, "range", f.tz, f.rows) ELSE f

\* df_validated.set_index('date') and the rename back to upper case
Revalidated(f) ==
    Frame({IF c = "wti" THEN "WTI" ELSE IF c = "usd_brl" THEN "USD_BRL"
           ELSE IF c = "pp_fob_usd" THEN "PP_FOB_USD" ELSE c : c \in f.cols \ {"date"}},
          IF "date" \in f.cols THEN "date" ELSE f.idx, f.tz, f.rows)

\* step 4: keep the three data columns, remove the timezone of the index
KeepTz(f) == Frame(f.cols \cap DataCols, f.idx, f.tz, f.rows)
Finalize(f) == Frame(f.cols \cap DataCols, f.idx, FALSE, f.rows)

----------------------------------------------------------------------------
(* What the upstream sources can answer *)

\* documents of the query date >= start ordered by date: Firestore timestamps
\* within the window, ascending; a field a document lacks is null
WarehouseRowDomain(days) ==
    UNION {{NominalRow(d),
            [NominalRow(d) EXCEPT !.wti = Null],
            [NominalRow(d) EXCEPT !.pp_fob_usd = Null]} : d \in (0 - days)..0}

WarehouseAnswers(days) ==
    {rows \in SeqsUpTo(WarehouseRowDomain(days), MaxSrcRows) :
        \A i \in 1..(Len(rows) - 1) : rows[i].date.v <= rows[i + 1].date.v}

\* close prices: a quote, a negative quote (as CL=F had in April 2020) or NaN
SeriesOver(days, cells) == UNION {[D -> cells] : D \in SUBSET ((0 - days)..0)}

ProviderAnswers(days) ==
    {[err |-> TRUE, tz |-> FALSE, wti |-> <<>>, brl |-> <<>>]}
    \cup {[err |-> FALSE, tz |-> z, wti |-> w, brl |-> b] :
            z \in BOOLEAN,
            w \in SeriesOver(days, {Num(70), Num(-37), Null}),
            b \in SeriesOver(days, {Num(5)})}

----------------------------------------------------------------------------
(* The steps of one call *)

InitFetch ==
    /\ FetchIdle
    /\ ValidateIdle
    /\ EngineIdle

\* get_market_data(days_back, validate) is called
Call(d, v) ==
    /\ pc = "idle"
    /\ days_back' = d
    /\ validateArg' = v
    /\ df' = EmptyFrame
    /\ pc' = "tier1"
    /\ UNCHANGED <<whOut, whData, whTz, yfOut, yfData, tiers, valOut, result, valVars, engineVars>>

\* 1. warehouse: no client, an exception, no documents, or documents
Tier1(out, rows, z) ==
    /\ pc = "tier1"
    /\ out = "rows" <=> rows # <<>>
    /\ whOut' = out
    /\ whData' = rows
    /\ whTz' = z
    /\ df' = IF out = "rows" THEN WarehouseFrame(rows, z) ELSE df
    /\ tiers' = Append(tiers, "warehouse")
    /\ pc' = "tier2"
    /\ UNCHANGED <<days_back, validateArg, yfOut, yfData, valOut, result, valVars, engineVars>>

\* 2. df is not empty: the live provider is not asked
Tier2Skip ==
    /\ pc = "tier2"
    /\ ~NeedsFallback(df)
    /\ pc' = "validate"
    /\ UNCHANGED <<days_back, validateArg, df, whOut, whData, whTz, yfOut, yfData, tiers,
                   valOut, result, valVars, engineVars>>

\* 2. df is empty: _fallback_yahoo_finance, which answers with the joined
\* quotes or with the placeholder series
Tier2Yahoo(y) ==
    /\ pc = "tier2"
    /\ NeedsFallback(df)
    /\ LET r == FallbackYahooFinance(days_back, y)
       IN /\ yfData' = y
          /\ yfOut' = r.out
          /\ IF r.raised
             THEN /\ result' = [kind |-> "raise", exc |-> "DataSourceUnavailableError",
                                df |-> EmptyFrame]
                  /\ tiers' = Append(tiers, "yahoo")
                  /\ pc' = "done"
                  /\ df' = df
             ELSE /\ df' = r.df
                  /\ tiers' = IF r.out \in {"error", "empty", "formula_error"}
                              THEN tiers \o <<"yahoo", "mock">>
                              ELSE Append(tiers, "yahoo")
                  /\ pc' = "validate"
                  /\ result' = result
    /\ UNCHANGED <<days_back, validateArg, whOut, whData, whTz, valOut, valVars, engineVars>>

\* 3. validation, when asked for and df is not empty; a DataValidationError is
\* logged and df stays as it was
ValidateStep ==
    /\ pc = "validate"
    /\ IF ValidateFlag(validateArg) /\ ~IsEmpty(df)
       THEN LET r == ValidateMarketData(ForValidation(df))
            IN IF r.ok
               THEN df' = Revalidated(r.df) /\ valOut' = "ok"
               ELSE df' = df /\ valOut' = "failed"
       ELSE df' = df /\ valOut' = "skipped"
    /\ pc' = "final"
    /\ UNCHANGED <<days_back, validateArg, whOut, whData, whTz, yfOut, yfData, tiers, result,
                   valVars, engineVars>>

\* 4. column selection and timezone removal, then return or raise
FinalStep ==
    /\ pc = "final"
    /\ LET out == IF IsEmpty(df) THEN df ELSE Finalize(df)
       IN /\ df' = out
          /\ result' =
                IF ~IsEmpty(df) /\ df.idx = "range"
                THEN [kind |-> "raise", exc |-> "AttributeError", df |-> EmptyFrame]
                ELSE IF IsEmpty(out)
                THEN [kind |-> "raise", exc |-> "DataSourceUnavailableError",
                      df |-> EmptyFrame]
                ELSE [kind |-> "return", exc |-> "", df |-> out]
    /\ pc' = "done"
    /\ UNCHANGED <<days_back, validateArg, whOut, whData, whTz, yfOut, yfData, tiers, valOut,
                   valVars, engineVars>>

NextFetch ==
    \/ \E d \in 0..MaxDaysBack, v \in {"default", "true", "false"} : Call(d, v)
    \/ \E out \in {"nodb", "error", "empty"} : Tier1(out, <<>>, FALSE)
    \/ pc = "tier1" /\ \E rows \in WarehouseAnswers(days_back), z \in BOOLEAN :
            Tier1("rows", rows, z)
    \/ Tier2Skip
    \/ pc = "tier2" /\ \E y \in ProviderAnswers(days_back) : Tier2Yahoo(y)
    \/ ValidateStep
    \/ FinalStep

SpecFetch == InitFetch /\ [][NextFetch]_vars

----------------------------------------------------------------------------
(* Properties of get_market_data *)

WarehouseUnusable == whOut \in {"nodb", "error", "empty"}

\* the provider gave no row: a download failed, a series is empty, or no day
\* has a number in both series
ProviderUnusable ==
    \/ yfData.err
    \/ DOMAIN yfData.wti = {}
    \/ DOMAIN yfData.brl = {}
    \/ ~\E d \in DOMAIN yfData.wti \cap DOMAIN yfData.brl :
            Parses(yfData.wti[d]) /\ Parses(yfData.brl[d])

\* the engine's base-price formula rejected a quote of the provider
ProviderQuoteRejected ==
    /\ ~yfData.err
    /\ \E d \in DOMAIN yfData.wti \cap DOMAIN yfData.brl :
            Parses(yfData.wti[d]) /\ Parses(yfData.brl[d]) /\ yfData.wti[d].v <= 0

\* rows form the flat placeholder series over the window of days_back days
IsPlaceholder(rows) ==
    /\ Len(rows) = days_back + 1
    /\ \A i \in 1..Len(rows) :
        rows[i] = [wti |-> Num(70), usd_brl |-> Num(5), pp_fob_usd |-> Num(12000),
                   date |-> Num(i - 1 - days_back)]

\* C1: when warehouse and live provider both yield no usable rows (empty,
\* error, or a join that leaves no rows) the call returns the non-empty
\* placeholder series spanning the window and does not raise.
C1_PlaceholderWhenBothUnusable ==
    (pc = "done" /\ WarehouseUnusable /\ "yahoo" \in Range(tiers) /\ ProviderUnusable) =>
        /\ result.kind = "return"
        /\ IsPlaceholder(result.df.rows)

\* C2: the tiers are used in the order warehouse, live provider, placeholder;
\* the provider is asked only after the warehouse gave nothing, the
\* placeholder is made only after tier 2 gave nothing or failed, and a tier
\* that yields rows ends the iteration.
C2_TierOrder ==
    /\ tiers \in {<<>>, <<"warehouse">>, <<"warehouse", "yahoo">>,
                  <<"warehouse", "yahoo", "mock">>}
    /\ "yahoo" \in Range(tiers) => WarehouseUnusable
    /\ "mock" \in Range(tiers) => (ProviderUnusable \/ ProviderQuoteRejected)
    /\ (pc \in {"validate", "final", "done"} /\ whOut = "rows") => tiers = <<"warehouse">>
    /\ (pc \in {"validate", "final", "done"} /\ "yahoo" \in Range(tiers)
        /\ ~ProviderUnusable /\ ~ProviderQuoteRejected) => "mock" \notin Range(tiers)

\* all three tiers were used, in order
C2_Witness ==
    /\ pc = "done"
    /\ tiers = <<"warehouse", "yahoo", "mock">>
    /\ whOut = "empty"
    /\ ~yfData.err /\ DOMAIN yfData.wti = {}

\* C3: an exception of the warehouse query leads to the live provider being
\* asked, an exception of the live provider leads to the placeholder being
\* returned, and no call that met an upstream exception raises because of it.
C3_FailuresDegrade ==
    pc = "done" =>
        /\ whOut = "error" => "yahoo" \in Range(tiers)
        /\ yfData.err => (result.kind = "return" /\ IsPlaceholder(result.df.rows))

\* both upstream sources raised and the call returned
C3_Witness ==
    /\ pc = "done"
    /\ whOut = "error"
    /\ yfData.err
    /\ result.kind = "return"

\* C4: every returned series has timezone-naive timestamps.
C4_TimezoneNaive ==
    result.kind = "return" => ~result.df.tz

\* zoned provider timestamps came back naive after a successful validation
C4_Witness ==
    /\ pc = "done"
    /\ result.kind = "return"
    /\ yfOut = "joined" /\ yfData.tz
    /\ valOut = "ok"

\* C5 as stated: a non-empty warehouse result is returned unchanged, every
\* warehouse row being in the returned series.
C5_WarehouseRowsAllReturned ==
    (pc = "done" /\ whOut = "rows") =>
        /\ result.kind = "return"
        /\ Len(result.df.rows) = Len(whData)
        /\ \A i \in 1..Len(whData) : whData[i] \in Range(result.df.rows)

\* C5 amended: a non-empty warehouse result ends the iteration and only
\* warehouse rows are returned; with validation off or failed all of them,
\* after a successful validation all but the rows validation removes (earlier
\* rows of a repeated timestamp, rows with a null index or fx rate).
C5_WarehouseRowsKeptUpToCleaning ==
    (pc = "done" /\ whOut = "rows") =>
        /\ result.kind = "return"
        /\ tiers = <<"warehouse">>
        /\ Range(result.df.rows) \subseteq Range(whData)
        /\ valOut # "ok" => result.df.rows = whData
        /\ valOut = "ok" =>
              \A i \in 1..Len(whData) :
                  Survivor(whData, i) <=> (\E j \in 1..Len(result.df.rows) :
                                              /\ result.df.rows[j] = whData[i]
                                              /\ LastOfDay(whData, i))

\* validation removed a warehouse row
C5_Witness ==
    /\ pc = "done"
    /\ whOut = "rows"
    /\ valOut = "ok"
    /\ Len(result.df.rows) < Len(whData)

\* C6: when the validator raises, the default call returns the unvalidated
\* data and the explicitly strict call (validate=True) raises
\* DataValidationError.
C6_StrictPropagates ==
    (pc = "done" /\ valOut = "failed") =>
        /\ validateArg = "default" => result.kind = "return"
        /\ validateArg = "true" =>
              (result.kind = "raise" /\ result.exc = "DataValidationError")

----------------------------------------------------------------------------
(***************************************************************************)
(* calculate_cost_buildup (src/modules/data_engine.py).                    *)
(*                                                                         *)
(* The rows of the frames of this call are records with one field per      *)
(* column.  All arithmetic is exact, each column in its own fixed unit:    *)
(*   PP_FOB_USD        1/100 USD          ocean_freight     1 USD (per t)  *)
(*   USD_BRL           1 BRL per USD      freight_internal  1/100 BRL      *)
(*   CFR_USD           1/1000 USD         icms_pct          1 %            *)
(*   Landed_BRL        1/100000 BRL       margin_pct        1 %            *)
(*   Operational_Cost  1/100000 BRL                                        *)
(*   Price_Net         1/10000000 BRL                                      *)
(*   PP_Price, Trend   the fraction v/d of 1/100000 BRL                    *)
(* A cell of PP_Price or Trend is Quot(n, d), Inf(s) or NaN.               *)
(***************************************************************************)

Return(f) == [kind |-> "return", exc |-> "", df |-> f]
Raise(exc) == [kind |-> "raise", exc |-> exc, df |-> EmptyFrame]

NaN == [k |-> "null", v |-> 0, d |-> 1]
Inf(s) == [k |-> "inf", v |-> s, d |-> 1]

\* float division n / d: a fraction with a positive denominator; a division by
\* 0.0 gives inf, -inf or nan
Quot(n, d) ==
    IF d > 0 THEN [k |-> "num", v |-> n, d |-> d]
    ELSE IF d < 0 THEN [k |-> "num", v |-> 0 - n, d |-> 0 - d]
    ELSE IF n > 0 THEN Inf(1)
    ELSE IF n < 0 THEN Inf(-1)
    ELSE NaN

IsFinite(c) == c.k = "num"

required_cols == {"PP_FOB_USD", "USD_BRL"}
BuildupCols == {"CFR_USD", "Landed_BRL", "Operational_Cost", "Price_Net", "PP_Price", "Trend"}

\* df['CFR_USD'] = df['PP_FOB_USD'] + (ocean_freight / 1000)
CFR_USD(pp_fob_usd, p) ==
    IF IsNull(pp_fob_usd) THEN Null ELSE Num(10 * pp_fob_usd.v + p.ocean_freight)

\* the landed cost without the 12 % of import costs
LandedAtParity(cfr, usd_brl) ==
    IF IsNull(cfr) \/ IsNull(usd_brl) THEN Null ELSE Num(cfr.v * usd_brl.v * 100)

\* df['Landed_BRL'] = df['CFR_USD'] * df['USD_BRL'] * 1.12
Landed_BRL(cfr, usd_brl) ==
    IF IsNull(cfr) \/ IsNull(usd_brl) THEN Null ELSE Num(cfr.v * usd_brl.v * 112)

\* df['Operational_Cost'] = df['Landed_BRL'] + freight_internal
Operational_Cost(landed, p) ==
    IF IsNull(landed) THEN Null ELSE Num(landed.v + 1000 * p.freight_internal)

\* df['Price_Net'] = df['Operational_Cost'] * (1 + (margin_pct / 100))
Price_Net(operational, p) ==
    IF IsNull(operational) THEN Null ELSE Num(operational.v * (100 + p.margin_pct))

\* df['PP_Price'] = df['Price_Net'] / (1 - (icms_pct / 100))
PP_Price(net, p) ==
    IF IsNull(net) THEN NaN ELSE Quot(net.v, 100 - p.icms_pct)

PricedRow(r, p) ==
    LET cfr == CFR_USD(r.PP_FOB_USD, p)
        landed == Landed_BRL(cfr, r.USD_BRL)
        operational == Operational_Cost(landed, p)
        net == Price_Net(operational, p)
    IN  [PP_FOB_USD |-> r.PP_FOB_USD, USD_BRL |-> r.USD_BRL, CFR_USD |-> cfr,
         Landed_BRL |-> landed, Operational_Cost |-> operational, Price_Net |-> net,
         PP_Price |-> PP_Price(net, p), Trend |-> NaN]

PricedRows(rows, p) == [i \in 1..Len(rows) |-> PricedRow(rows[i], p)]

\* rolling(window=7)
WINDOW == 7

RECURSIVE SumPrices(_, _, _)
SumPrices(rows, from, to) ==
    IF from > to THEN 0 ELSE rows[from].PP_Price.v + SumPrices(rows, from + 1, to)

\* the trailing average over the last 3 points only
RollingMean3(rows, i) ==
    IF i >= WINDOW /\ \A j \in (i - 2)..i : IsFinite(rows[j].PP_Price)
    THEN Quot(SumPrices(rows, i - 2, i), 3 * rows[i].PP_Price.d)
    ELSE NaN

\* Series.rolling(window=7).mean() at position i: min_periods is the window, so
\* the mean is NaN until 7 points exist and whenever one of the 7 is NaN; the
\* rolling functions turn inf into NaN first.  Every price of one call has the
\* denominator 100 - icms_pct.
RollingMean(rows, i) ==
    IF i >= WINDOW /\ \A j \in (i - WINDOW + 1)..i : IsFinite(rows[j].PP_Price)
    THEN Quot(SumPrices(rows, i - WINDOW + 1, i), WINDOW * rows[i].PP_Price.d)
    ELSE NaN

\* df['Trend'] = df['PP_Price'].rolling(window=7).mean()
WithTrend(rows) == [i \in 1..Len(rows) |-> [rows[i] EXCEPT !.Trend = RollingMean(rows, i)]]

calculate_cost_buildup(f, p) ==
    IF IsEmpty(f) THEN Return(f)
    ELSE IF ~(required_cols \subseteq f.cols) THEN Raise("ValueError")
    ELSE Return(Frame(f.cols \cup BuildupCols, f.idx, f.tz,
                      WithTrend(PricedRows(f.rows, p))))

----------------------------------------------------------------------------
(* The frames and parameters one call is made with *)

CostRow(b, fx) == [PP_FOB_USD |-> b, USD_BRL |-> fx]

\* the default parameters of the application: 60 USD/t, 0.15 BRL, 18 %, 10 %
DefaultParams ==
    [ocean_freight |-> 60, freight_internal |-> 15, icms_pct |-> 18, margin_pct |-> 10]

CostRowDomain ==
    {CostRow(Num(133), Num(5)), CostRow(Num(120), Num(6)),
     CostRow(Null, Num(5)), CostRow(Num(133), Null)}

TrendRowDomain == {CostRow(Num(133), Num(5)), CostRow(Num(120), Num(6)), CostRow(Null, Num(5))}

CostCols == {"WTI", "USD_BRL", "PP_FOB_USD"}

\* frames of a few rows with and without the required columns, priced with
\* valid and invalid parameters; longer frames priced with the default
\* parameters or with a tax rate of 100 %
CostParamDomain ==
    {[ocean_freight |-> o, freight_internal |-> fi, icms_pct |-> t, margin_pct |-> m] :
        o \in {-100, 0, 60, 61}, fi \in {-1000, 0, 15, 16},
        t \in {0, 18, 19, 100, 110}, m \in {-10, 0, 10, 11}}

ShortFrames ==
    {Frame(CostCols, "dt", FALSE, rows) : rows \in SeqsUpTo(CostRowDomain, MaxCostRows)}
    \cup {Frame(cols, "dt", FALSE, <<CostRow(Num(133), Num(5))>>) :
             cols \in {{"WTI", "USD_BRL"}, {"WTI", "PP_FOB_USD"}, {"WTI"}}}
    \cup {EmptyFrame}

LongFrames ==
    {Frame(CostCols, "dt", FALSE, rows) :
        rows \in SeqsUpTo(TrendRowDomain, MaxTrendRows) \ SeqsUpTo(TrendRowDomain, MaxCostRows)}

TrendParamDomain == {DefaultParams, [DefaultParams EXCEPT !.icms_pct = 100]}

CostInputs == (ShortFrames \X CostParamDomain) \cup (LongFrames \X TrendParamDomain)

InitCost ==
    /\ cpc = "call"
    /\ \E in \in CostInputs : cDf = in[1] /\ cParams = in[2]
    /\ cOut = NoResult
    /\ ValidateIdle
    /\ FetchIdle
    /\ FormulaIdle
    /\ VariationIdle
    /\ BacktestIdle
    /\ ConfidenceIdle
    /\ LateIdle

\* df_calc = calculate_cost_buildup(df, ocean, freight, icms, margin): the call
\* works on a copy, the caller's frame is left as it was
CostCall ==
    /\ cpc = "call"
    /\ cOut' = calculate_cost_buildup(cDf, cParams)
    /\ cpc' = "done"
    /\ UNCHANGED <<cDf, cParams, valVars, fetchVars, formulaVars, variationVars, backtestVars, confVars, lateVars>>

NextCost == CostCall

SpecCost == InitCost /\ [][NextCost]_vars

----------------------------------------------------------------------------
(* Properties of calculate_cost_buildup *)

CostReturned == cpc = "done" /\ cOut.kind = "return"
Priced == CostReturned /\ "PP_Price" \in cOut.df.cols

\* the parameters section 7 of the specification calls invalid
InvalidParams(p) ==
    \/ p.icms_pct >= 100
    \/ p.ocean_freight < 0
    \/ p.freight_internal < 0
    \/ p.margin_pct < 0

\* x < y, x = y for two finite cells (fractions with positive denominators),
\* by quotient and remainder
RatLess(x, y) ==
    \/ x.v \div x.d < y.v \div y.d
    \/ /\ x.v \div x.d = y.v \div y.d
       /\ (x.v % x.d) * y.d < (y.v % y.d) * x.d

RatEq(x, y) ==
    /\ x.v \div x.d = y.v \div y.d
    /\ (x.v % x.d) * y.d = (y.v % y.d) * x.d

\* C11: a call with a tax rate of 100 % or more, or with a negative freight or
\* margin, never returns a priced series: it raises ParameterError before the
\* cascade runs.
C11_InvalidParametersRejected ==
    (cpc = "done" /\ InvalidParams(cParams)) =>
        /\ ~Priced
        /\ ~IsEmpty(cDf) => (cOut.kind = "raise" /\ cOut.exc = "ParameterError")

\* the worked example: base 1.33, fx 5.0, ocean freight 60, internal freight
\* 0.15, margin 10 %, tax 18 %
IsWorkedExample(r, p) ==
    /\ r.PP_FOB_USD = Num(133)
    /\ r.USD_BRL = Num(5)
    /\ p = [ocean_freight |-> 60, freight_internal |-> 15, icms_pct |-> 18, margin_pct |-> 10]

\* |price - 10.643| <= 0.001, the price in 1/100000 BRL
NearExamplePrice(c) ==
    /\ IsFinite(c)
    /\ c.v - 1064300 * c.d <= 100 * c.d
    /\ 1064300 * c.d - c.v <= 100 * c.d

\* C12: every row of a priced series carries the stages of the cascade, each
\* computed from the one before it: CFR = base + ocean/1000, landed = CFR * fx
\* * 1.12, operational = landed + internal freight, net = operational * (1 +
\* margin/100), final = net / (1 - tax/100); the worked example gives 10.643
\* within 0.001.
C12_CascadeInOrder ==
    Priced =>
        \A i \in 1..Len(cOut.df.rows) :
            LET r == cOut.df.rows[i]
                p == cParams
            IN  /\ r.PP_FOB_USD = cDf.rows[i].PP_FOB_USD
                /\ r.USD_BRL = cDf.rows[i].USD_BRL
                /\ ~IsNull(r.PP_FOB_USD) /\ ~IsNull(r.USD_BRL) =>
                      /\ r.CFR_USD = Num(10 * r.PP_FOB_USD.v + p.ocean_freight)
                      /\ r.Landed_BRL = Num(r.CFR_USD.v * r.USD_BRL.v * 112)
                      /\ r.Operational_Cost = Num(r.Landed_BRL.v + 1000 * p.freight_internal)
                      /\ r.Price_Net = Num(r.Operational_Cost.v * (100 + p.margin_pct))
                      /\ p.icms_pct < 100 =>
                            /\ IsFinite(r.PP_Price)
                            /\ RatEq(r.PP_Price, Quot(r.Price_Net.v, 100 - p.icms_pct))
                /\ IsWorkedExample(r, p) => NearExamplePrice(r.PP_Price)

C12_Witness ==
    /\ Priced
    /\ cOut.df.rows # <<>>
    /\ IsWorkedExample(cDf.rows[1], cParams)
    /\ cOut.df.rows[1].Landed_BRL = Num(778400)
    /\ NearExamplePrice(cOut.df.rows[1].PP_Price)

\* the parameter sets that exceed p in exactly one parameter, by one unit
Increased(p) ==
    {[p EXCEPT !.ocean_freight = @ + 1], [p EXCEPT !.freight_internal = @ + 1],
     [p EXCEPT !.margin_pct = @ + 1], [p EXCEPT !.icms_pct = @ + 1]}

\* C14: with the tax rate below 100 %, raising one parameter and keeping the
\* other three and the series raises the final price of every priced point.
C14_MonotoneInEachParameter ==
    (Priced /\ cParams.icms_pct < 100) =>
        \A q \in Increased(cParams) :
            q.icms_pct < 100 =>
                LET higher == calculate_cost_buildup(cDf, q).df.rows
                IN  \A i \in 1..Len(cOut.df.rows) :
                        IsFinite(cOut.df.rows[i].PP_Price) =>
                            /\ IsFinite(higher[i].PP_Price)
                            /\ RatLess(cOut.df.rows[i].PP_Price, higher[i].PP_Price)

\* the monotonicity of the final price on the parameters the specification calls valid
MonotoneOnValidParameters ==
    (Priced /\ ~InvalidParams(cParams)) =>
        \A q \in Increased(cParams) :
            q.icms_pct < 100 =>
                LET higher == calculate_cost_buildup(cDf, q).df.rows
                IN  \A i \in 1..Len(cOut.df.rows) :
                        IsFinite(cOut.df.rows[i].PP_Price) =>
                            /\ IsFinite(higher[i].PP_Price)
                            /\ RatLess(cOut.df.rows[i].PP_Price, higher[i].PP_Price)

\* the window t-6..t exists and every final price in it is a number
WindowPriced(rows, t) == t >= 7 /\ \A j \in (t - 6)..t : IsFinite(rows[j].PP_Price)

RECURSIVE SumOfPrices(_, _)
SumOfPrices(rows, T) ==
    IF T = {} THEN 0
    ELSE LET j == CHOOSE x \in T : TRUE
         IN  rows[j].PP_Price.v + SumOfPrices(rows, T \ {j})

\* C15: the trailing average at position t is the mean of the final prices at
\* t-6..t; it is null at the first 6 points and wherever a price of the window
\* is missing (nothing is filled forward), and defined from the 7th point on.
C15_TrailingAverage ==
    (CostReturned /\ "Trend" \in cOut.df.cols) =>
        \A t \in 1..Len(cOut.df.rows) :
            LET rows == cOut.df.rows
            IN  IF WindowPriced(rows, t)
                THEN /\ IsFinite(rows[t].Trend)
                     /\ RatEq(rows[t].Trend,
                              Quot(SumOfPrices(rows, (t - 6)..t), 7 * rows[t].PP_Price.d))
                ELSE IsNull(rows[t].Trend)

C15_Witness ==
    /\ CostReturned
    /\ Len(cOut.df.rows) >= 8
    /\ \A t \in 1..6 : IsFinite(cOut.df.rows[t].PP_Price) /\ IsNull(cOut.df.rows[t].Trend)
    /\ IsFinite(cOut.df.rows[7].Trend)
    /\ IsFinite(cOut.df.rows[8].Trend)
    /\ RatLess(cOut.df.rows[7].Trend, cOut.df.rows[8].Trend)
    /\ ~RatEq(cOut.df.rows[8].Trend, cOut.df.rows[8].PP_Price)

----------------------------------------------------------------------------
(* PricingFormula.calculate_pp_fob_usd (src/modules/pricing_formulas.py): one *)
(* call with a reference index price in whole USD                             *)

FormulaVersions == {"None", "", "1.0", "1.1", "1.2", "2.0"}

InitFormula ==
    /\ fpc = "call"
    /\ fWti \in -1..MaxQuote
    /\ fVersion \in FormulaVersions
    /\ fOut = [ok |-> FALSE, v |-> 0]
    /\ ValidateIdle
    /\ FetchIdle
    /\ CostIdle
    /\ VariationIdle
    /\ BacktestIdle
    /\ ConfidenceIdle
    /\ LateIdle

FormulaCall ==
    /\ fpc = "call"
    /\ fOut' = calculate_pp_fob_usd(fWti, fVersion)
    /\ fpc' = "done"
    /\ UNCHANGED <<fWti, fVersion, valVars, fetchVars, costVars, variationVars, backtestVars, confVars, lateVars>>

NextFormula == FormulaCall

SpecFormula == InitFormula /\ [][NextFormula]_vars

\* C13 as stated: the default call prices a reference index w at w * 0.014 +
\* 0.35, so 70 gives 1.33.
C13_DefaultIsOriginalPair ==
    (fpc = "done" /\ fVersion = "None" /\ fWti > 0) =>
        /\ fOut.ok
        /\ fOut.v = fWti * 140 + 3500
        /\ fWti = 70 => fOut.v = 13300

\* C13: the default call prices a reference index w with formula version 1.2,
\* w * 0.014 + 0.35 + w * 0.0001, so 70 gives 1.337; w * 0.014 + 0.35 (70 gives
\* 1.33) is version 1.0 and is used when that version is named.
C13_DefaultIsCurrentVersion ==
    (fpc = "done" /\ fWti > 0) =>
        /\ fVersion = "None" =>
              /\ fOut.ok
              /\ fOut.v = fWti * 141 + 3500
              /\ fWti = 70 => fOut.v = 13370
        /\ fVersion = "1.0" =>
              /\ fOut.ok
              /\ fOut.v = fWti * 140 + 3500
              /\ fWti = 70 => fOut.v = 13300

C13_Witness ==
    /\ fpc = "done"
    /\ fVersion = "None"
    /\ fWti = 70
    /\ fOut = [ok |-> TRUE, v |-> 13370]

\* the version named by the caller; none when the argument is omitted or empty
VersionMissing == fVersion \in {"None", ""}

Listed(v) == \E i \in 1..Len(list_available_versions) : list_available_versions[i] = v

\* C28: with a positive reference price the call succeeds exactly when the
\* version is missing or is one of list_available_versions(); a missing version
\* gives the price of get_current_version(), which is "1.2" and is listed; every
\* listed version has metadata; every other version, and every reference price
\* <= 0, gives the ValueError.
C28_VersionsFormClosedSet ==
    fpc = "done" =>
        /\ get_current_version = "1.2"
        /\ Listed(get_current_version)
        /\ \A i \in 1..Len(list_available_versions) :
              /\ get_formula_metadata(list_available_versions[i]) # NoMetadata
              /\ calculate_pp_fob_usd(70, list_available_versions[i]).ok
        /\ (fWti > 0 => (fOut.ok <=> (VersionMissing \/ Listed(fVersion))))
        /\ (fWti > 0 /\ VersionMissing =>
                fOut = calculate_pp_fob_usd(fWti, get_current_version))
        /\ (fWti <= 0 => ~fOut.ok)
        /\ (~VersionMissing /\ ~Listed(fVersion) =>
                ~fOut.ok /\ get_formula_metadata(fVersion) = NoMetadata)

\* an unlisted version was asked for with a valid price and refused
C28_Witness ==
    /\ fpc = "done"
    /\ fWti = 70
    /\ fVersion = "2.0"
    /\ ~fOut.ok

----------------------------------------------------------------------------
(***************************************************************************)
(* The weekly variation of a priced series: view_monitor (src/app.py) and  *)
(* check_and_send_alerts (src/scripts/daily_etl.py).  A row is [date,      *)
(* price], the date a day number, the price in 1/100 BRL; rows are in      *)
(* ascending date order, one per day at most, and days may be missing.     *)
(***************************************************************************)

Abs(x) == IF x < 0 THEN 0 - x ELSE x

\* ALERT_THRESHOLD = 0.03, in percent
ALERT_THRESHOLD == 3

\* timedelta(days=7)
DAYS_AGO == 7

Figure(ref, figure) == [ref |-> ref, figure |-> figure]

\* (df['Date'] - target_date).abs().idxmin(): the first row at the least distance
ClosestIdx(s, target) ==
    CHOOSE i \in 1..Len(s) :
        /\ \A j \in 1..Len(s) : Abs(s[i].date - target) <= Abs(s[j].date - target)
        /\ \A j \in 1..(i - 1) : Abs(s[j].date - target) > Abs(s[i].date - target)

\* check_and_send_alerts: nothing below 8 rows; else the last price against
\* the price at the date closest to 7 days before the last date; an alert goes
\* out when the variation reaches the threshold
check_and_send_alerts(s) ==
    IF Len(s) < 8 THEN Figure(0, "none")
    ELSE LET current_price == s[Len(s)].price
             closest_idx == ClosestIdx(s, s[Len(s)].date - DAYS_AGO)
             price_7d_ago == s[closest_idx].price
         IN  IF Abs(current_price - price_7d_ago) * 100 >= ALERT_THRESHOLD * price_7d_ago
             THEN Figure(closest_idx, IF current_price > price_7d_ago THEN "ALTA" ELSE "BAIXA")
             ELSE Figure(closest_idx, "stable")

\* view_monitor lines 59-67: nothing for an empty frame; var = (curr /
\* df['PP_Price'].iloc[-7] - 1) * 100 if len(df) >= 7 else 0; the suggestion
\* is Alta above 0.5 %, Baixa below -0.5 %, else Estavel
view_monitor(s) ==
    IF s = <<>> THEN Figure(0, "none")
    ELSE IF Len(s) < 7 THEN Figure(0, "Estavel")
    ELSE LET curr == s[Len(s)].price
             ref == Len(s) - 6
             base == s[ref].price
         IN  IF (curr - base) * 1000 > 5 * base THEN Figure(ref, "Alta")
             ELSE IF (curr - base) * 1000 < 0 - 5 * base THEN Figure(ref, "Baixa")
             ELSE Figure(ref, "Estavel")

\* the series over a set of days, the price moving by slope per day
RECURSIVE SeriesOn(_, _, _)
SeriesOn(days, from, slope) ==
    IF from > 0 THEN <<>>
    ELSE (IF from \in days THEN <<[date |-> from, price |-> 1000 + slope * (from + MaxSpan)]>>
          ELSE <<>>)
         \o SeriesOn(days, from + 1, slope)

PricedSeries ==
    {SeriesOn(days, 0 - MaxSpan, slope) :
        days \in SUBSET ((0 - MaxSpan)..0), slope \in {-10, 0, 1, 10}}

InitVariation ==
    /\ mpc = "call"
    /\ mOp \in {"view_monitor", "check_and_send_alerts"}
    /\ mSeries \in PricedSeries
    /\ mOut = NoFigure
    /\ ValidateIdle
    /\ FetchIdle
    /\ CostIdle
    /\ FormulaIdle
    /\ BacktestIdle
    /\ ConfidenceIdle
    /\ LateIdle

ViewMonitor ==
    /\ mpc = "call"
    /\ mOp = "view_monitor"
    /\ mOut' = view_monitor(mSeries)
    /\ mpc' = "done"
    /\ UNCHANGED <<mOp, mSeries, valVars, fetchVars, costVars, formulaVars, backtestVars, confVars, lateVars>>

CheckAndSendAlerts ==
    /\ mpc = "call"
    /\ mOp = "check_and_send_alerts"
    /\ mOut' = check_and_send_alerts(mSeries)
    /\ mpc' = "done"
    /\ UNCHANGED <<mOp, mSeries, valVars, fetchVars, costVars, formulaVars, backtestVars, confVars, lateVars>>

NextVariation == ViewMonitor \/ CheckAndSendAlerts

SpecVariation == InitVariation /\ [][NextVariation]_vars

\* row i is an observation nearest in time to 7 days before the last one
NearestToWeekAgo(s, i) ==
    \A j \in 1..Len(s) :
        Abs(s[i].date - (s[Len(s)].date - 7)) <= Abs(s[j].date - (s[Len(s)].date - 7))

\* C16: whenever a weekly variation is computed against an earlier
\* observation, that observation is one whose timestamp is nearest to the last
\* timestamp minus 7 days.
C16_NearestTimestampLookup ==
    (mpc = "done" /\ mOut.ref # 0) => NearestToWeekAgo(mSeries, mOut.ref)

\* the same for the alert job alone
AlertUsesNearestTimestamp ==
    (mpc = "done" /\ mOp = "check_and_send_alerts" /\ mOut.ref # 0) =>
        NearestToWeekAgo(mSeries, mOut.ref)

----------------------------------------------------------------------------
(***************************************************************************)
(* run_backtest_validation (src/modules/data_engine.py).                   *)
(*                                                                         *)
(* history_df is a frame indexed by date with rows [date, WTI, USD_BRL]    *)
(* (and PP_Theoretical once the call has added it); uploaded_df is a table *)
(* with rows [Data, Preco].  Units: WTI 1 USD, USD_BRL 1 BRL per USD,      *)
(* wti_coef 1/1000, spread 1/100 USD, markup 1/10, Preco 1/100 BRL,        *)
(* PP_Theoretical 1/10000 BRL.  mape is an exact fraction v/d; mse is the  *)
(* mean squared error in (1/10000 BRL)^2 as a fraction, the RMSE returned  *)
(* by the code being its square root.  Observed prices are positive.       *)
(***************************************************************************)

RECURSIVE Gcd(_, _)
Gcd(a, b) == IF b = 0 THEN a ELSE Gcd(b, a % b)

\* the fraction n / d (n >= 0, d > 0) in lowest terms
Frac(n, d) == LET g == Gcd(n, d) IN [k |-> "num", v |-> n \div g, d |-> d \div g]

FracAdd(x, y) == Frac(x.v * y.d + y.v * x.d, x.d * y.d)

\* history_df['PP_Theoretical'] = ((WTI * wti_coef) + spread) * USD_BRL * markup
PP_Theoretical(r, a) ==
    IF IsNull(r.WTI) \/ IsNull(r.USD_BRL) THEN Null
    ELSE Num((r.WTI.v * a.wti_coef + 10 * a.spread) * r.USD_BRL.v * a.markup)

WithTheoretical(rows, a) ==
    [i \in 1..Len(rows) |->
        [date |-> rows[i].date, WTI |-> rows[i].WTI, USD_BRL |-> rows[i].USD_BRL,
         PP_Theoretical |-> PP_Theoretical(rows[i], a)]]

\* one row of history_df.join(uploaded_df, how='inner')
Joined(h, u) ==
    [date |-> h.date, WTI |-> h.WTI, USD_BRL |-> h.USD_BRL,
     PP_Theoretical |-> h.PP_Theoretical, Preco |-> u.Preco]

\* .dropna(): a null in a column of the joined frame; Preco counts only when
\* the uploaded table has that column
HasNull(r, withPreco) ==
    \/ IsNull(r.WTI)
    \/ IsNull(r.USD_BRL)
    \/ IsNull(r.PP_Theoretical)
    \/ withPreco /\ IsNull(r.Preco)

\* the uploaded rows whose date is that of the history row h, joined to it
RECURSIVE MatchesOf(_, _, _)
MatchesOf(h, urows, withPreco) ==
    IF urows = <<>> THEN <<>>
    ELSE (IF /\ ~IsNull(Head(urows).Data)
             /\ Head(urows).Data.v = h.date
             /\ ~HasNull(Joined(h, Head(urows)), withPreco)
          THEN <<Joined(h, Head(urows))>> ELSE <<>>)
         \o MatchesOf(h, Tail(urows), withPreco)

\* history_df.join(uploaded_df, how='inner').dropna(): exact match of the index
\* values, in the order of history_df
RECURSIVE JoinInner(_, _, _)
JoinInner(hrows, urows, withPreco) ==
    IF hrows = <<>> THEN <<>>
    ELSE MatchesOf(Head(hrows), urows, withPreco) \o JoinInner(Tail(hrows), urows, withPreco)

\* Preco in the unit of PP_Theoretical
Observed(r) == 100 * r.Preco.v

RECURSIVE SumPctErrOfTheoretical(_)
SumPctErrOfTheoretical(rows) ==
    IF rows = <<>> THEN Frac(0, 1)
    ELSE FracAdd(Frac(Abs(Observed(Head(rows)) - Head(rows).PP_Theoretical.v),
                      Head(rows).PP_Theoretical.v),
                 SumPctErrOfTheoretical(Tail(rows)))

\* mean_absolute_percentage_error(comparison['Preco'], comparison['PP_Theoretical'])
RECURSIVE SumPctErr(_)
SumPctErr(rows) ==
    IF rows = <<>> THEN Frac(0, 1)
    ELSE FracAdd(Frac(Abs(Observed(Head(rows)) - Head(rows).PP_Theoretical.v),
                      Observed(Head(rows))),
                 SumPctErr(Tail(rows)))

\* the mean of the absolute errors relative to the theoretical price
MapeOfTheoretical(rows) == LET t == SumPctErrOfTheoretical(rows) IN Frac(t.v, t.d * Len(rows))

\* the mean of the absolute errors relative to the observed price
Mape(rows) == LET t == SumPctErr(rows) IN Frac(t.v, t.d * Len(rows))

\* mean_squared_error(..., squared=False) is the square root of this mean
RECURSIVE SumSqErr(_)
SumSqErr(rows) ==
    IF rows = <<>> THEN 0
    ELSE (Observed(Head(rows)) - Head(rows).PP_Theoretical.v)
           * (Observed(Head(rows)) - Head(rows).PP_Theoretical.v)
         + SumSqErr(Tail(rows))

Mse(rows) == Frac(SumSqErr(rows), Len(rows))

\* a failure tuple that still carries metrics
ZeroMetrics(msg) == [comparison |-> <<>>, mape |-> Frac(0, 1), mse |-> Frac(0, 1), msg |-> msg]

\* return None, None, None, msg
NoComparison(msg) == [comparison |-> <<>>, mape |-> NoMetric, mse |-> NoMetric, msg |-> msg]

\* what one call returns and what it leaves in the caller's two tables
Backtest(out, h, u) == [out |-> out, history |-> h, uploaded |-> u]

\* run_backtest_validation(history_df, uploaded_df, wti_coef, spread, markup),
\* sk being HAS_SKLEARN.  Every exception inside the try block gives the
\* "Erro nos dados" tuple: history_df.index.tz on a frame without a
\* DatetimeIndex, a missing WTI, USD_BRL, Data or Preco column, a date
\* pd.to_datetime cannot parse.  The assignments to history_df.index,
\* history_df['PP_Theoretical'] and uploaded_df['Data'] made before the
\* exception (or the return) stay in the caller's tables.
run_backtest_validation(h, u, a, sk) ==
    IF ~sk THEN Backtest(NoComparison("Biblioteca scikit-learn nao instalada."), h, u)
    ELSE IF h.idx = "range" THEN Backtest(NoComparison("Erro nos dados"), h, u)
    ELSE LET h1 == [h EXCEPT !.tz = FALSE]
         IN  IF ~({"WTI", "USD_BRL"} \subseteq h.cols)
             THEN Backtest(NoComparison("Erro nos dados"), h1, u)
             ELSE LET h2 == [h1 EXCEPT !.cols = @ \cup {"PP_Theoretical"},
                                       !.rows = WithTheoretical(h.rows, a)]
                  IN  IF "Data" \notin u.cols
                         \/ \E i \in 1..Len(u.rows) : u.rows[i].Data.k = "bad"
                      THEN Backtest(NoComparison("Erro nos dados"), h2, u)
                      ELSE LET u1 == [u EXCEPT !.dtype = "datetime64", !.tz = FALSE]
                               comparison == JoinInner(h2.rows, u1.rows, "Preco" \in u.cols)
                           IN  IF comparison = <<>>
                               THEN Backtest(NoComparison("Datas nao coincidem."), h2, u1)
                               ELSE IF "Preco" \notin u.cols
                               THEN Backtest(NoComparison("Erro nos dados"), h2, u1)
                               ELSE Backtest([comparison |-> comparison,
                                              mape |-> Mape(comparison),
                                              mse |-> Mse(comparison),
                                              msg |-> "Sucesso"], h2, u1)

----------------------------------------------------------------------------
(* The tables one backtest is made with *)

HistoryDays == {-2, -1, 0}

HistoryRow(d, w) == [date |-> d, WTI |-> w, USD_BRL |-> Num(5)]

\* the rows of a history over a set of days, in date order; the reference
\* index is 70 on every day, and missing on day -1 when gap is set
RECURSIVE HistoryRows(_, _, _)
HistoryRows(days, from, gap) ==
    IF from > 0 THEN <<>>
    ELSE (IF from \in days
          THEN <<HistoryRow(from, IF gap /\ from = -1 THEN Null ELSE Num(70))>>
          ELSE <<>>)
         \o HistoryRows(days, from + 1, gap)

HistoryCols == {"WTI", "USD_BRL", "PP_FOB_USD"}

\* histories over every set of days; the full history also with timezone-aware
\* timestamps and with the missing reference index
Histories ==
    {Frame(HistoryCols, "dt", FALSE, HistoryRows(days, -2, FALSE)) : days \in SUBSET HistoryDays}
    \cup {Frame(HistoryCols, "dt", TRUE, HistoryRows(HistoryDays, -2, FALSE)),
          Frame(HistoryCols, "dt", FALSE, HistoryRows(HistoryDays, -2, TRUE))}

NominalHistory == Frame(HistoryCols, "dt", FALSE, HistoryRows(HistoryDays, -2, FALSE))

OtherHistories ==
    {Frame(HistoryCols, "range", FALSE, HistoryRows(HistoryDays, -2, FALSE)),
     Frame({"USD_BRL", "PP_FOB_USD"}, "dt", TRUE, HistoryRows(HistoryDays, -2, FALSE))}

UploadRow(d, p) == [Data |-> d, Preco |-> p]

\* observed prices of 11, 10 and 9 BRL on the three days, a second price on the
\* last day, a date outside the history, an unparseable date, a missing price
UploadRowDomain ==
    {UploadRow(Num(-2), Num(1100)), UploadRow(Num(-1), Num(1000)),
     UploadRow(Num(0), Num(900)), UploadRow(Num(0), Num(1100)),
     UploadRow(Num(-5), Num(1000)), UploadRow(Bad, Num(1000)),
     UploadRow(Num(0), Null)}

UploadCols == {"Data", "Preco"}

Uploads ==
    {Upload(UploadCols, k[1], k[2], rows) :
        k \in {<<"object", FALSE>>, <<"datetime64", FALSE>>, <<"datetime64", TRUE>>},
        rows \in SeqsUpTo(UploadRowDomain, MaxUpload)}

NominalUpload ==
    Upload(UploadCols, "object", FALSE,
           <<UploadRow(Num(-2), Num(1100)), UploadRow(Num(-1), Num(1000)),
             UploadRow(Num(0), Num(900))>>)

OtherUploads ==
    {Upload({"Preco"}, "object", FALSE, NominalUpload.rows),
     Upload({"Data"}, "object", FALSE, NominalUpload.rows)}

\* wti_coef 0.014, spread 1.02, markup 1.0: 70 USD at 5 BRL gives 10 BRL;
\* with a spread of 1.22, 11 BRL
BacktestArgs ==
    {[wti_coef |-> 14, spread |-> 102, markup |-> 10],
     [wti_coef |-> 14, spread |-> 122, markup |-> 10]}

NominalArgs == [wti_coef |-> 14, spread |-> 102, markup |-> 10]

BacktestCall(h, u, a, sk) == [history |-> h, uploaded |-> u, args |-> a, sklearn |-> sk]

BacktestInputs ==
    {BacktestCall(h, u, a, TRUE) : h \in Histories, u \in Uploads, a \in BacktestArgs}
    \cup {BacktestCall(h, NominalUpload, NominalArgs, TRUE) : h \in OtherHistories}
    \cup {BacktestCall(NominalHistory, u, NominalArgs, TRUE) : u \in OtherUploads}
    \cup {BacktestCall(NominalHistory, NominalUpload, NominalArgs, FALSE)}

InitBacktest ==
    /\ bpc = "call"
    /\ bIn \in BacktestInputs
    /\ bHistory = bIn.history
    /\ bUploaded = bIn.uploaded
    /\ bOut = NoBacktest
    /\ ValidateIdle
    /\ FetchIdle
    /\ CostIdle
    /\ FormulaIdle
    /\ VariationIdle
    /\ ConfidenceIdle
    /\ LateIdle

BacktestStep ==
    /\ bpc = "call"
    /\ LET b == run_backtest_validation(bHistory, bUploaded, bIn.args, bIn.sklearn)
       IN  /\ bOut' = b.out
           /\ bHistory' = b.history
           /\ bUploaded' = b.uploaded
    /\ bpc' = "done"
    /\ UNCHANGED <<bIn, valVars, fetchVars, costVars, formulaVars, variationVars, confVars, lateVars>>

NextBacktest == BacktestStep

SpecBacktest == InitBacktest /\ [][NextBacktest]_vars

\* C17: when run_backtest_validation has returned, the caller's two tables
\* have the columns, index and values they had before the call (as the tables
\* passed to the other public operations of the engine do).
C17_InputsUnchanged ==
    bpc = "done" => (bHistory = bIn.history /\ bUploaded = bIn.uploaded)

BacktestMessages ==
    {"Biblioteca scikit-learn nao instalada.", "Erro nos dados", "Datas nao coincidem.",
     "Sucesso"}

\* the tables cannot be read: history_df has no DatetimeIndex or lacks WTI or
\* USD_BRL, uploaded_df lacks Data or holds a date that cannot be parsed
Unreadable(c) ==
    \/ c.history.idx = "range"
    \/ ~({"WTI", "USD_BRL"} \subseteq c.history.cols)
    \/ "Data" \notin c.uploaded.cols
    \/ \E i \in 1..Len(c.uploaded.rows) : c.uploaded.rows[i].Data.k = "bad"

\* some uploaded date is the date of a history row
DatesCoincide(c) ==
    \E i \in 1..Len(c.history.rows), j \in 1..Len(c.uploaded.rows) :
        /\ c.uploaded.rows[j].Data.k = "num"
        /\ c.uploaded.rows[j].Data.v = c.history.rows[i].date

\* C24: run_backtest_validation always returns a tuple with one of its four
\* status messages; without the statistics dependency the message says so,
\* unreadable tables give the data-error message, readable tables without a
\* common date give the no-matching-dates message; and every message other than
\* the success message comes with no comparison table, no MAPE and no RMSE.
C24_FailuresReturnStatusOnly ==
    bpc = "done" =>
        /\ bOut.msg \in BacktestMessages
        /\ (bOut.msg # "Sucesso" =>
                bOut.comparison = <<>> /\ bOut.mape = NoMetric /\ bOut.mse = NoMetric)
        /\ (bOut.msg = "Sucesso" =>
                bOut.comparison # <<>> /\ bOut.mape # NoMetric /\ bOut.mse # NoMetric)
        /\ (~bIn.sklearn <=> bOut.msg = "Biblioteca scikit-learn nao instalada.")
        /\ (bIn.sklearn /\ Unreadable(bIn) => bOut.msg = "Erro nos dados")
        /\ (bIn.sklearn /\ ~Unreadable(bIn) /\ ~DatesCoincide(bIn) =>
                bOut.msg = "Datas nao coincidem.")

\* readable tables without a common date were passed and the call has returned
C24_Witness ==
    /\ bpc = "done"
    /\ bIn.sklearn
    /\ ~Unreadable(bIn)
    /\ bIn.history.rows # <<>>
    /\ bIn.uploaded.rows # <<>>
    /\ ~DatesCoincide(bIn)
    /\ bOut.msg = "Datas nao coincidem."
    /\ bOut.mape = NoMetric

\* the pairs (history row, uploaded row) of one date without a missing value
MatchingPairs(c) ==
    {k \in (1..Len(c.history.rows)) \X (1..Len(c.uploaded.rows)) :
        /\ c.uploaded.rows[k[2]].Data = Num(c.history.rows[k[1]].date)
        /\ ~IsNull(c.history.rows[k[1]].WTI)
        /\ ~IsNull(c.history.rows[k[1]].USD_BRL)
        /\ ~IsNull(c.uploaded.rows[k[2]].Preco)}

\* theoretical 10, 10, 10 against observed 11, 10, 9 on the same three days
IsBacktestExample(c) ==
    /\ c.sklearn
    /\ c.args = NominalArgs
    /\ c.history.idx = "dt"
    /\ c.history.cols = HistoryCols
    /\ c.history.rows = NominalHistory.rows
    /\ c.uploaded.cols = UploadCols
    /\ c.uploaded.rows = NominalUpload.rows

----------------------------------------------------------------------------
(***************************************************************************)
(* calculate_price_confidence (src/modules/data_engine.py).                *)
(*                                                                         *)
(* The frame has rows [date, USD_BRL, PP_Price]; date is the index value   *)
(* (a day number, today 0, tomorrow 1), PP_Price is in 1/100 BRL and is a  *)
(* positive number in every row, USD_BRL may be null.  The four component  *)
(* scores and the confidence are in millionths (1.0 is ONE), each quotient *)
(* rounded down; the volatility (standard deviation of the relative price  *)
(* changes) is in 1/10000.  The reported figures are rounded as the code   *)
(* rounds them: scores to 1/1000, the volatility to 1/10000.  The code     *)
(* computes in binary floating point, whose sums can differ from the exact *)
(* ones in the last bit.  The argument current_price is not used by the    *)
(* code.                                                                   *)
(***************************************************************************)

ONE == 1000 * 1000

Max(a, b) == IF a >= b THEN a ELSE b
Min(a, b) == IF a <= b THEN a ELSE b

HIGH == "Alta confianca - Pode usar para decisao"
MODERATE == "Confianca moderada - Considere validar com outras fontes"
LOW == "Baixa confianca - Aguarde atualizacao de dados"
INSUFFICIENT == "Dados insuficientes para calcular confianca"

\* round(x, 3) of a value in millionths, in thousandths (ties to even)
Round3(x) ==
    LET q == x \div 1000
        r == x % 1000
    IN  IF r > 500 \/ (r = 500 /\ q % 2 = 1) THEN q + 1 ELSE q

RECURSIVE IsqrtIn(_, _, _)
IsqrtIn(x, lo, hi) ==
    IF lo >= hi THEN lo
    ELSE LET mid == (lo + hi + 1) \div 2
         IN  IF mid * mid <= x THEN IsqrtIn(x, mid, hi) ELSE IsqrtIn(x, lo, mid - 1)

\* the square root of x, rounded down
Isqrt(x) == IsqrtIn(x, 0, 46340)

\* (datetime.now() - last_date).days for an index of naive timestamps; 999
\* when the index is no DatetimeIndex or the subtraction raises (timestamps
\* with a timezone)
DaysSinceUpdate(f) ==
    IF f.idx = "range" \/ f.tz THEN 999 ELSE 0 - f.rows[Len(f.rows)].date

\* freshness_score = max(0.0, 1.0 - (days_since_update / 7.0)); 0.0 when the
\* try block raises
FreshnessScore(f) ==
    IF f.idx # "range" /\ f.tz THEN 0
    ELSE Max(0, ((7 - DaysSinceUpdate(f)) * ONE) \div 7)

\* df.isnull().sum().sum() over the columns of the frame
RECURSIVE NullCells(_, _)
NullCells(rows, cols) ==
    IF rows = <<>> THEN 0
    ELSE (IF "USD_BRL" \in cols /\ IsNull(Head(rows).USD_BRL) THEN 1 ELSE 0)
         + (IF "PP_Price" \in cols /\ IsNull(Head(rows).PP_Price) THEN 1 ELSE 0)
         + NullCells(Tail(rows), cols)

\* completeness = 1.0 - (null_cells / total_cells) if total_cells > 0 else 0.0
Completeness(f) ==
    LET total_cells == Len(f.rows) * Cardinality(f.cols)
    IN  IF total_cells > 0
        THEN ONE - (NullCells(f.rows, f.cols) * ONE) \div total_cells
        ELSE 0

\* df['PP_Price'].pct_change() from the second row on, in 1/10000
PctChange(rows) ==
    [i \in 1..(Len(rows) - 1) |->
        ((rows[i + 1].PP_Price.v - rows[i].PP_Price.v) * 10000) \div rows[i].PP_Price.v]

RECURSIVE SumSeq(_)
SumSeq(s) == IF s = <<>> THEN 0 ELSE Head(s) + SumSeq(Tail(s))

RECURSIVE SumSquares(_)
SumSquares(s) == IF s = <<>> THEN 0 ELSE Head(s) * Head(s) + SumSquares(Tail(s))

\* Series.std() (ddof = 1) of the relative changes: NaN below two changes
Volatility(rows) ==
    LET x == PctChange(rows)
        m == Len(x)
    IN  IF m < 2 THEN Null
        ELSE Num(Isqrt((m * SumSquares(x) - SumSeq(x) * SumSeq(x)) \div (m * (m - 1))))

\* volatility_score = max(0.0, 1.0 - (volatility * 10.0)), which is 0.0 for a
\* NaN volatility; 0.5 without the column PP_Price
VolatilityScore(f) ==
    IF "PP_Price" \notin f.cols THEN ONE \div 2
    ELSE LET volatility == Volatility(f.rows)
         IN  IF IsNull(volatility) THEN 0 ELSE Max(0, ONE - 1000 * volatility.v)

\* df['PP_Price'].diff().abs().sum()
RECURSIVE SumAbsDiff(_)
SumAbsDiff(rows) ==
    IF Len(rows) < 2 THEN 0
    ELSE Abs(rows[2].PP_Price.v - rows[1].PP_Price.v) + SumAbsDiff(Tail(rows))

RECURSIVE SumPrice(_)
SumPrice(rows) == IF rows = <<>> THEN 0 ELSE Head(rows).PP_Price.v + SumPrice(Tail(rows))

\* consistency = 1.0 - (df['PP_Price'].diff().abs().mean() / mean_price),
\* clamped to [0, 1]; 0.5 without the column, for a single row or for a mean
\* price that is not positive
Consistency(f) ==
    IF "PP_Price" \in f.cols /\ Len(f.rows) > 1
    THEN LET n == Len(f.rows)
         IN  IF SumPrice(f.rows) > 0
             THEN Max(0, Min(ONE, ONE - (SumAbsDiff(f.rows) * n * ONE)
                                           \div ((n - 1) * SumPrice(f.rows))))
             ELSE ONE \div 2
    ELSE ONE \div 2

\* confidence = freshness_score * 0.3 + completeness * 0.3 +
\*              volatility_score * 0.2 + consistency * 0.2
Confidence(f) ==
    (3 * FreshnessScore(f) + 3 * Completeness(f) + 2 * VolatilityScore(f)
       + 2 * Consistency(f)) \div 10

\* the recommendation for a confidence in millionths
Recommendation(confidence) ==
    IF confidence >= 800000 THEN HIGH
    ELSE IF confidence >= 600000 THEN MODERATE
    ELSE LOW

Report(score, days, completeness, volatility, consistency, recommendation) ==
    [confidence_score |-> score, data_freshness_days |-> days,
     data_completeness |-> completeness, volatility_index |-> volatility,
     consistency_score |-> consistency, recommendation |-> recommendation]

\* the report of an empty frame with the recommendation of the lowest tier
ConfidenceLowestTierWhenEmpty(f) ==
    IF IsEmpty(f) THEN Report(0, Null, 0, Null, Null, LOW)
    ELSE Report(Round3(Confidence(f)),
                IF DaysSinceUpdate(f) # 999 THEN Num(DaysSinceUpdate(f)) ELSE Null,
                Round3(Completeness(f)),
                IF "PP_Price" \in f.cols THEN Volatility(f.rows) ELSE Null,
                Num(Round3(Consistency(f))),
                Recommendation(Confidence(f)))

\* calculate_price_confidence(df, current_price): the fixed report for an
\* empty frame (it has no consistency_score), else the rounded figures and
\* the recommendation for the confidence before rounding
calculate_price_confidence(f) ==
    IF IsEmpty(f) THEN Report(0, Null, 0, Null, Null, INSUFFICIENT)
    ELSE Report(Round3(Confidence(f)),
                IF DaysSinceUpdate(f) # 999 THEN Num(DaysSinceUpdate(f)) ELSE Null,
                Round3(Completeness(f)),
                IF "PP_Price" \in f.cols THEN Volatility(f.rows) ELSE Null,
                Num(Round3(Consistency(f))),
                Recommendation(Confidence(f)))

----------------------------------------------------------------------------
(* The frames one confidence report is asked for *)

ConfRow(price, fx) == [date |-> 0, USD_BRL |-> fx, PP_Price |-> Num(price)]

ConfRowDomain == {ConfRow(p, fx) : p \in {1000, 1001, 1100}, fx \in {Num(5), Null}}

\* daily rows ending on the day last
Dated(rows, last) == [i \in 1..Len(rows) |-> [rows[i] EXCEPT !.date = last - (Len(rows) - i)]]

\* the last timestamp: over a week old, a week old, three days old, today,
\* tomorrow, a week ahead
LastDays == {-8, -7, -3, 0, 1, 7}

ConfCols == {{"USD_BRL", "PP_Price"}, {"USD_BRL"}}

NominalConfRows == <<ConfRow(1000, Num(5)), ConfRow(1000, Num(5)), ConfRow(1000, Num(5))>>

ConfidenceInputs ==
    {Frame(cols, "dt", FALSE, Dated(rows, last)) :
        cols \in ConfCols, last \in LastDays, rows \in SeqsUpTo(ConfRowDomain, MaxConfRows)}
    \cup {Frame(cols, "dt", TRUE, Dated(NominalConfRows, 0)) : cols \in ConfCols}
    \cup {Frame(cols, "range", FALSE, Dated(NominalConfRows, 0)) : cols \in ConfCols}
    \cup {EmptyFrame, Frame({}, "dt", FALSE, Dated(NominalConfRows, 0))}

InitConfidence ==
    /\ confPc = "call"
    /\ confDf \in ConfidenceInputs
    /\ confOut = NoReport
    /\ ValidateIdle
    /\ FetchIdle
    /\ CostIdle
    /\ FormulaIdle
    /\ VariationIdle
    /\ BacktestIdle
    /\ LateIdle

\* confidence = calculate_price_confidence(df, current_price): df is only read
ConfidenceCall ==
    /\ confPc = "call"
    /\ confOut' = calculate_price_confidence(confDf)
    /\ confPc' = "done"
    /\ UNCHANGED <<confDf, valVars, fetchVars, costVars, formulaVars, variationVars,
                   backtestVars, lateVars>>

NextConfidence == ConfidenceCall

SpecConfidence == InitConfidence /\ [][NextConfidence]_vars

----------------------------------------------------------------------------
(* Properties of calculate_price_confidence *)

Reported == confPc = "done" /\ ~IsEmpty(confDf)

\* 1 - days/7 clamped to [0, 1]
FreshnessClamped(f) == Min(ONE, Max(0, ((7 - DaysSinceUpdate(f)) * ONE) \div 7))

\* C18: the score of a report is 0.3 * freshness + 0.3 * completeness + 0.2 *
\* volatility + 0.2 * consistency, every component in [0, 1] and the freshness
\* equal to 1 - days/7 clamped to [0, 1]; so the score is in [0, 1], also for a
\* series whose last timestamp is in the future.
C18_ScoreInUnitInterval ==
    Reported =>
        /\ confOut.confidence_score >= 0
        /\ confOut.confidence_score <= 1000
        /\ confOut.confidence_score =
              Round3((3 * FreshnessClamped(confDf) + 3 * Completeness(confDf)
                        + 2 * VolatilityScore(confDf) + 2 * Consistency(confDf)) \div 10)

\* the same for the series whose last timestamp is not in the future
ScoreInUnitIntervalForPastSeries ==
    (Reported /\ confDf.rows[Len(confDf.rows)].date <= 0) =>
        /\ confOut.confidence_score >= 0
        /\ confOut.confidence_score <= 1000
        /\ confOut.confidence_score =
              Round3((3 * FreshnessClamped(confDf) + 3 * Completeness(confDf)
                        + 2 * VolatilityScore(confDf) + 2 * Consistency(confDf)) \div 10)

\* C19: the recommendation of a report follows from the score of the same
\* report: high for a score of 0.8 or more, moderate for a score in [0.6, 0.8),
\* low below 0.6.
C19_RecommendationFollowsReportedScore ==
    Reported =>
        /\ confOut.confidence_score >= 800 => confOut.recommendation = HIGH
        /\ (confOut.confidence_score >= 600 /\ confOut.confidence_score < 800) =>
              confOut.recommendation = MODERATE
        /\ confOut.confidence_score < 600 => confOut.recommendation = LOW

\* C20 as stated: for an empty series the report has score 0 and the
\* recommendation of the lowest tier.
C20_EmptyGivesLowestTier ==
    (confPc = "done" /\ IsEmpty(confDf)) =>
        /\ confOut.confidence_score = 0
        /\ confOut.recommendation = LOW

\* C20: for an empty series the call returns (it does not raise) a report
\* with score 0, completeness 0, no freshness and no volatility, and the
\* recommendation "insufficient data", which is none of the three tiers.
C20_EmptyGivesInsufficientData ==
    (confPc = "done" /\ IsEmpty(confDf)) =>
        /\ confOut.confidence_score = 0
        /\ confOut.data_completeness = 0
        /\ IsNull(confOut.data_freshness_days)
        /\ IsNull(confOut.volatility_index)
        /\ confOut.recommendation = INSUFFICIENT
        /\ confOut.recommendation \notin {HIGH, MODERATE, LOW}

C20_Witness ==
    /\ confPc = "done"
    /\ confDf = EmptyFrame
    /\ confOut.confidence_score = 0
    /\ confOut.recommendation = INSUFFICIENT

----------------------------------------------------------------------------
(***************************************************************************)
(* calculate_data_quality_metrics (src/modules/data_engine.py).            *)
(*                                                                         *)
(* The frame has rows [wti, usd_brl, pp_fob_usd, date] with numeric cells  *)
(* or nulls; the timestamp of a row is in the index (idx "dt") or in a     *)
(* column of cols ("date" or "Date").  completeness is in thousandths.     *)
(***************************************************************************)

\* the cell of row r in column c of the frame
Cell(r, c) == Field(r, Lower(c))

\* df.isnull().sum().sum()
NullCount(f) ==
    Cardinality({k \in (1..Len(f.rows)) \X f.cols : IsNull(Cell(f.rows[k[1]], k[2]))})

\* round(1 - null_cells / total_cells, 3)
completeness(f) ==
    LET total_cells == Len(f.rows) * Cardinality(f.cols)
    IN  Round3(((total_cells - NullCount(f)) * ONE) \div total_cells)

\* the rows that repeat the timestamp of an earlier row
RepeatedTimestamps(f) ==
    Cardinality({i \in 1..Len(f.rows) :
        \E j \in 1..(i - 1) : f.rows[j].date = f.rows[i].date})

\* df.duplicated(subset=['date']).sum() with a date column, df.duplicated().sum()
\* without: the rows equal to an earlier row in every column
duplicates(f) ==
    IF "date" \in f.cols THEN RepeatedTimestamps(f)
    ELSE Cardinality({i \in 1..Len(f.rows) :
            \E j \in 1..(i - 1) :
                \A c \in f.cols : Cell(f.rows[j], c) = Cell(f.rows[i], c)})

\* the timestamps the date range is taken from: the date column, else a
\* DatetimeIndex; none otherwise
HasDateCol(f) == "date" \in f.cols \/ f.idx # "range"

MinDate(f) == CHOOSE d \in {f.rows[i].date.v : i \in 1..Len(f.rows)} :
                 \A i \in 1..Len(f.rows) : d <= f.rows[i].date.v
MaxDate(f) == CHOOSE d \in {f.rows[i].date.v : i \in 1..Len(f.rows)} :
                 \A i \in 1..Len(f.rows) : d >= f.rows[i].date.v

date_range(f) ==
    IF HasDateCol(f)
    THEN [k |-> "num", start |-> MinDate(f), end |-> MaxDate(f),
          days |-> MaxDate(f) - MinDate(f), expected_days |-> Len(f.rows)]
    ELSE NoRange

\* (datetime.now() - date_max).days
freshness_days(f) == IF HasDateCol(f) THEN Num(0 - MaxDate(f)) ELSE Null

RECURSIVE SumOutliers(_, _)
SumOutliers(f, cols) ==
    IF cols = {} THEN 0
    ELSE LET c == CHOOSE x \in cols : TRUE
         IN  OutlierCount(f.rows, Lower(c)) + SumOutliers(f, cols \ {c})

NumericCols == {"wti", "usd_brl", "pp_fob_usd", "WTI", "USD_BRL", "PP_FOB_USD"}

outliers_count(f) == SumOutliers(f, f.cols \cap NumericCols)

Metrics(c, d, dr, o, fd) ==
    [completeness |-> c, duplicates |-> d, date_range |-> dr, outliers_count |-> o,
     freshness_days |-> fd]

calculate_data_quality_metrics(f) ==
    IF IsEmpty(f) THEN Metrics(0, 0, NoRange, 0, Null)
    ELSE Metrics(completeness(f), duplicates(f), date_range(f), outliers_count(f),
                 freshness_days(f))

----------------------------------------------------------------------------
(* The frames one call is made with *)

QualityRow(d, w) ==
    [wti |-> w, usd_brl |-> Num(5), pp_fob_usd |-> Num(13300), date |-> Num(d)]

\* rows of yesterday and today with an index of 70 or 80, or without one
QualityRowDomain == {QualityRow(d, w) : d \in {-1, 0}, w \in {Num(70), Num(80), Null}}

\* the frame of get_market_data (timestamps in the index), a validated frame
\* (lower-case columns with a date column), a raw table (upper-case columns)
QualityLayouts ==
    {[cols |-> DataCols, idx |-> "dt"],
     [cols |-> FullLower, idx |-> "range"],
     [cols |-> FullUpper, idx |-> "range"]}

QualityInputs ==
    {Frame(l.cols, l.idx, FALSE, rows) :
        l \in QualityLayouts, rows \in SeqsUpTo(QualityRowDomain, MaxQualRows)}
    \cup {EmptyFrame}

InitQuality ==
    /\ qpc = "call"
    /\ qDf \in QualityInputs
    /\ qOut = NoMetrics
    /\ ValidateIdle
    /\ FetchIdle
    /\ CostIdle
    /\ FormulaIdle
    /\ VariationIdle
    /\ BacktestIdle
    /\ ConfidenceIdle
    /\ SensitivityIdle
    /\ RateIdle

\* metrics = calculate_data_quality_metrics(df): df is only read
QualityCall ==
    /\ qpc = "call"
    /\ qOut' = calculate_data_quality_metrics(qDf)
    /\ qpc' = "done"
    /\ UNCHANGED <<qDf, valVars, fetchVars, costVars, formulaVars, variationVars,
                   backtestVars, confVars, sensVars, rateVars>>

NextQuality == QualityCall

SpecQuality == InitQuality /\ [][NextQuality]_vars

----------------------------------------------------------------------------
(* Properties of calculate_data_quality_metrics *)

\* the number of rows beyond the first of each timestamp
RepeatedCount(rows) ==
    Len(rows) - Cardinality({rows[i].date : i \in 1..Len(rows)})

\* completeness is 1 - nullCells / totalCells to three decimals
CompletenessAsDefined ==
    LET total == Len(qDf.rows) * Cardinality(qDf.cols)
        nulls == NullCount(qDf)
        exact == 1000 * (total - nulls)
    IN  /\ qOut.completeness >= 0
        /\ qOut.completeness <= 1000
        /\ 2 * Abs(qOut.completeness * total - exact) <= total

\* C27: for an empty frame the metrics are completeness 0 and duplicates 0;
\* otherwise completeness is 1 - nullCells / totalCells (to three decimals), in
\* [0, 1], and duplicates is the number of rows that repeat a timestamp of the
\* series, whether the timestamps are in a column or in the index.
C27_CompletenessAndRepeatedTimestamps ==
    qpc = "done" =>
        IF IsEmpty(qDf)
        THEN qOut.completeness = 0 /\ qOut.duplicates = 0
        ELSE /\ CompletenessAsDefined
             /\ qOut.duplicates = RepeatedCount(qDf.rows)

\* the same holds for the frames that keep their timestamps in a column
\* named date
RepeatedTimestampsOfDateColumn ==
    (qpc = "done" /\ ~IsEmpty(qDf) /\ "date" \in qDf.cols) =>
        /\ CompletenessAsDefined
        /\ qOut.duplicates = RepeatedCount(qDf.rows)

\* completeness alone is as defined for every frame
CompletenessHolds ==
    (qpc = "done" /\ ~IsEmpty(qDf)) => CompletenessAsDefined

----------------------------------------------------------------------------
(***************************************************************************)
(* sensitivity_analysis (src/modules/data_engine.py).                      *)
(*                                                                         *)
(* base_params maps parameter names to values in the units of              *)
(* calculate_cost_buildup above (ocean_freight 1 USD, freight_internal     *)
(* 1/100 BRL, icms and margin 1 %).  A price, an impact, a percentage or a *)
(* rank is a cell Quot(n, d), Inf(s) or NaN: the final price of the last   *)
(* row is taken to 1/100000 BRL (rounded down), price_impact is reported   *)
(* in 1/10000 BRL and price_impact_pct in 1/100 %.                         *)
(***************************************************************************)

\* base_params.get(k, default)
Get(bp, k, default) == IF k \in DOMAIN bp THEN bp[k] ELSE default

\* the four arguments passed to calculate_cost_buildup
ParamsOf(bp) ==
    [ocean_freight |-> Get(bp, "ocean_freight", 60),
     freight_internal |-> Get(bp, "freight_internal", 15),
     icms_pct |-> Get(bp, "icms", 18),
     margin_pct |-> Get(bp, "margin", 10)]

\* calculate_cost_buildup(df, ...)['PP_Price'].iloc[-1]
last_price(f, bp) ==
    LET out == calculate_cost_buildup(f, ParamsOf(bp))
    IN  IF out.kind = "raise" THEN [kind |-> "raise", price |-> NaN]
        ELSE LET c == out.df.rows[Len(out.df.rows)].PP_Price
             IN  [kind |-> "ok",
                  price |-> IF IsFinite(c) THEN Quot(c.v \div c.d, 1) ELSE c]

\* every parameter shifted at once
TestParamsAllShifted(bp, param, delta) == [k \in DOMAIN bp |-> bp[k] + delta]

\* test_params = base_params.copy(); test_params[param] = base_params[param] + delta
test_params(bp, param, delta) == [bp EXCEPT ![param] = @ + delta]

\* base_price > 0 (False for nan)
Positive(c) == (c.k = "num" /\ c.v > 0) \/ (c.k = "inf" /\ c.v = 1)

\* x - y for two prices (d = 1)
Minus(x, y) ==
    IF x.k = "null" \/ y.k = "null" THEN NaN
    ELSE IF x.k = "inf" THEN (IF y.k = "inf" /\ y.v = x.v THEN NaN ELSE x)
    ELSE IF y.k = "inf" THEN Inf(0 - y.v)
    ELSE Quot(x.v - y.v, 1)

\* (impact / base_price) * 100 for a positive base_price
Pct(impact, base) ==
    IF impact.k = "null" THEN NaN
    ELSE IF base.k = "inf" THEN (IF impact.k = "inf" THEN NaN ELSE Quot(0, 1))
    ELSE IF impact.k = "inf" THEN impact
    ELSE Quot(impact.v * 100, base.v)

\* n / d to the nearest integer, ties to even (n >= 0, d > 0)
RoundDivEven(n, d) ==
    LET q == n \div d
        r == n % d
    IN  IF 2 * r > d \/ (2 * r = d /\ q % 2 = 1) THEN q + 1 ELSE q

\* round(impact, 4): from 1/100000 BRL to 1/10000 BRL
Round4(c) ==
    IF c.k # "num" THEN c
    ELSE Quot((IF c.v < 0 THEN -1 ELSE 1) * RoundDivEven(Abs(c.v), 10), 1)

\* round(impact_pct, 2): in 1/100 %
Round2(c) ==
    IF c.k # "num" THEN c
    ELSE LET a == Abs(c.v)
             whole == a \div c.d
             rest == RoundDivEven((a % c.d) * 100, c.d)
         IN  Quot((IF c.v < 0 THEN -1 ELSE 1) * (whole * 100 + rest), 1)

\* abs(impact_pct)
AbsCell(c) ==
    IF c.k = "num" THEN Quot(Abs(c.v), c.d) ELSE IF c.k = "inf" THEN Inf(1) ELSE c

\* one entry of results: the price with param shifted by delta against base_price;
\* nothing when the price computation raises
ProbeOne(bp, param, delta, f, base) ==
    LET tp == test_params(bp, param, delta)
        t  == last_price(f, tp)
    IN  IF t.kind = "raise" THEN <<>>
        ELSE LET impact == Minus(t.price, base)
                 impact_pct == IF Positive(base) THEN Pct(impact, base) ELSE Quot(0, 1)
             IN  <<[parameter |-> param, change |-> delta, new_value |-> tp[param],
                    price_impact |-> Round4(impact),
                    price_impact_pct |-> Round2(impact_pct),
                    sensitivity_rank |-> AbsCell(impact_pct)]>>

\* the body of the loop over ranges.items(): a name missing from base_params is
\* skipped, else the entry of min_delta is followed by the entry of max_delta
RECURSIVE Results(_, _, _, _)
Results(bp, rg, f, base) ==
    IF rg = <<>> THEN <<>>
    ELSE (IF Head(rg).param \notin DOMAIN bp THEN <<>>
          ELSE ProbeOne(bp, Head(rg).param, Head(rg).min_delta, f, base)
               \o ProbeOne(bp, Head(rg).param, Head(rg).max_delta, f, base))
         \o Results(bp, Tail(rg), f, base)

\* the names logged as not found in base_params
Warned(bp, rg) == {rg[i].param : i \in 1..Len(rg)} \ DOMAIN bp

\* x sorts before y in descending order; NaN sorts last
RankAbove(x, y) ==
    IF x.k = "null" THEN FALSE
    ELSE IF y.k = "null" THEN TRUE
    ELSE IF x.k = "inf" THEN y.k # "inf"
    ELSE IF y.k = "inf" THEN FALSE
    ELSE IF x.d = y.d THEN x.v > y.v
    ELSE RatLess(y, x)

RECURSIVE InsertByRank(_, _)
InsertByRank(r, s) ==
    IF s = <<>> THEN <<r>>
    ELSE IF RankAbove(r.sensitivity_rank, Head(s).sensitivity_rank) THEN <<r>> \o s
    ELSE <<Head(s)>> \o InsertByRank(r, Tail(s))

\* the rows in ascending order of sensitivity_rank
RECURSIVE SortAscending(_)
SortAscending(rows) ==
    IF rows = <<>> THEN <<>>
    ELSE LET rest == SortAscending(SubSeq(rows, 1, Len(rows) - 1))
             r == rows[Len(rows)]
             before == SelectSeq(rest, LAMBDA x : ~RankAbove(x.sensitivity_rank, r.sensitivity_rank))
             after == SelectSeq(rest, LAMBDA x : RankAbove(x.sensitivity_rank, r.sensitivity_rank))
         IN  before \o <<r>> \o after

\* df_results.sort_values('sensitivity_rank', ascending=False); rows of equal
\* rank keep their order
RECURSIVE sort_values(_)
sort_values(rows) ==
    IF rows = <<>> THEN <<>>
    ELSE InsertByRank(rows[Len(rows)], sort_values(SubSeq(rows, 1, Len(rows) - 1)))

Analysis(kind, rows, warned) == [kind |-> kind, rows |-> rows, warned |-> warned]

\* the analysis without the handler around it
AnalysisUnguarded(bp, rg, mk) ==
    IF mk.kind = "raise" THEN Analysis("raise", <<>>, {})
    ELSE IF IsEmpty(mk.df) THEN Analysis("return", <<>>, {})
    ELSE LET base == last_price(mk.df, bp)
         IN  IF base.kind = "raise" THEN Analysis("raise", <<>>, {})
             ELSE Analysis("return", sort_values(Results(bp, rg, mk.df, base.price)),
                           Warned(bp, rg))

\* sensitivity_analysis(base_params, ranges, days_back); mk is what
\* get_market_data(days_back, validate=True) does.  Every exception is caught
\* and gives an empty table.
sensitivity_analysis(bp, rg, mk) ==
    IF mk.kind = "raise" THEN Analysis("return", <<>>, {})
    ELSE IF IsEmpty(mk.df) THEN Analysis("return", <<>>, {})
    ELSE LET base == last_price(mk.df, bp)
         IN  IF base.kind = "raise" THEN Analysis("return", <<>>, {})
             ELSE Analysis("return", sort_values(Results(bp, rg, mk.df, base.price)),
                           Warned(bp, rg))

----------------------------------------------------------------------------
(* The arguments and market data one analysis is made with *)

NominalBase ==
    ("ocean_freight" :> 60) @@ ("freight_internal" :> 15) @@ ("icms" :> 18) @@ ("margin" :> 10)

\* all four parameters; the margin left to its default; a fifth name
BaseParams ==
    {NominalBase,
     ("ocean_freight" :> 60) @@ ("freight_internal" :> 15) @@ ("icms" :> 18),
     NominalBase @@ ("spread" :> 35)}

ParamRange(param, min_delta, max_delta) ==
    [param |-> param, min_delta |-> min_delta, max_delta |-> max_delta]

\* freight by 10 USD, internal freight by 0.05 BRL, tax by 4 points or up to
\* 100 %, margin by 2 points, and a name that is no parameter of the price
RangeDomain ==
    {ParamRange("ocean_freight", -10, 10), ParamRange("freight_internal", -5, 5),
     ParamRange("icms", -4, 4), ParamRange("icms", -2, 82), ParamRange("margin", -2, 2),
     ParamRange("spread", -1, 1)}

RangeSeqs ==
    {rg \in SeqsUpTo(RangeDomain, MaxRanges) :
        \A i, j \in 1..Len(rg) : i # j => rg[i].param # rg[j].param}

\* get_market_data raises, or returns a frame: a base price of 1.00 USD at 5
\* BRL in its last row, a negative or a missing base price, a frame without the
\* base price column
MarketOutcomes ==
    {[kind |-> "raise", df |-> EmptyFrame]}
    \cup {[kind |-> "return", df |-> Frame(CostCols, "dt", FALSE, rows)] :
            rows \in {<<CostRow(Num(100), Num(5))>>,
                      <<CostRow(Num(120), Num(5)), CostRow(Num(100), Num(5))>>,
                      <<CostRow(Num(-200), Num(5))>>,
                      <<CostRow(Null, Num(5))>>}}
    \cup {[kind |-> "return",
           df |-> Frame({"WTI", "USD_BRL"}, "dt", FALSE, <<CostRow(Num(100), Num(5))>>)]}

InitSensitivity ==
    /\ spc = "call"
    /\ sBase \in BaseParams
    /\ sRanges \in RangeSeqs
    /\ sMarket \in MarketOutcomes
    /\ sOut = NoSensitivity
    /\ ValidateIdle
    /\ FetchIdle
    /\ CostIdle
    /\ FormulaIdle
    /\ VariationIdle
    /\ BacktestIdle
    /\ ConfidenceIdle
    /\ QualityIdle
    /\ RateIdle

SensitivityCall ==
    /\ spc = "call"
    /\ sOut' = sensitivity_analysis(sBase, sRanges, sMarket)
    /\ spc' = "done"
    /\ UNCHANGED <<sBase, sRanges, sMarket, valVars, fetchVars, costVars, formulaVars,
                   variationVars, backtestVars, confVars, qualVars, rateVars>>

NextSensitivity == SensitivityCall

SpecSensitivity == InitSensitivity /\ [][NextSensitivity]_vars

----------------------------------------------------------------------------
(* Properties of sensitivity_analysis *)

\* the market data arrived and a base price was computed from it
Analysed ==
    /\ spc = "done"
    /\ sMarket.kind = "return"
    /\ required_cols \subseteq sMarket.df.cols

\* the positions of ranges whose name is a key of base_params
KnownEntries == {i \in 1..Len(sRanges) : sRanges[i].param \in DOMAIN sBase}

Deltas(i) == {sRanges[i].min_delta, sRanges[i].max_delta}

BasePrice == last_price(sMarket.df, sBase).price

\* the final price with one parameter moved by delta and every other
\* parameter at its base value
PerturbedPrice(param, delta) ==
    last_price(sMarket.df,
               [k \in DOMAIN sBase |-> IF k = param THEN sBase[k] + delta ELSE sBase[k]]).price

\* impact / base * 100, whatever the sign of base
PctOfBase(impact) == IF BasePrice.k = "null" THEN NaN ELSE Pct(impact, BasePrice)

\* C21 as stated: the table has one row for min_delta and one for max_delta of
\* every parameter of ranges found in base_params and no other row; the row of
\* (parameter, delta) carries the impact perturbed - base of the price with only
\* that parameter moved by delta (to 4 decimals) and the percentage impact /
\* base * 100 (to 2 decimals).
C21_OneAtATime ==
    Analysed =>
        /\ Len(sOut.rows) = 2 * Cardinality(KnownEntries)
        /\ \A i \in KnownEntries : \A delta \in Deltas(i) :
              \E n \in 1..Len(sOut.rows) :
                  LET impact == Minus(PerturbedPrice(sRanges[i].param, delta), BasePrice)
                  IN  /\ sOut.rows[n].parameter = sRanges[i].param
                      /\ sOut.rows[n].change = delta
                      /\ sOut.rows[n].new_value = sBase[sRanges[i].param] + delta
                      /\ sOut.rows[n].price_impact = Round4(impact)
                      /\ sOut.rows[n].price_impact_pct = Round2(PctOfBase(impact))

\* C21: the same, the percentage being impact / base * 100 when the base price
\* is positive and 0 when it is not (negative, zero or missing).
C21_OneAtATimeWithGuard ==
    Analysed =>
        /\ Len(sOut.rows) = 2 * Cardinality(KnownEntries)
        /\ \A i \in KnownEntries : \A delta \in Deltas(i) :
              \E n \in 1..Len(sOut.rows) :
                  LET impact == Minus(PerturbedPrice(sRanges[i].param, delta), BasePrice)
                  IN  /\ sOut.rows[n].parameter = sRanges[i].param
                      /\ sOut.rows[n].change = delta
                      /\ sOut.rows[n].new_value = sBase[sRanges[i].param] + delta
                      /\ sOut.rows[n].price_impact = Round4(impact)
                      /\ sOut.rows[n].price_impact_pct =
                            (IF Positive(BasePrice) THEN Round2(PctOfBase(impact))
                             ELSE Quot(0, 1))

\* three parameters were analysed on a positive base price: six rows, the
\* margin moved by 2 points worth 1.82 % of the price
C21_Witness ==
    /\ Analysed
    /\ Positive(BasePrice)
    /\ Cardinality(KnownEntries) = 3
    /\ Len(sOut.rows) = 6
    /\ \E n \in 1..6 :
          /\ sOut.rows[n].parameter = "margin"
          /\ sOut.rows[n].change = 2
          /\ sOut.rows[n].price_impact_pct = Quot(182, 1)

\* |x| >= |y| for two reported percentages
AbsNotBelow(x, y) ==
    IF x.k = "null" \/ y.k = "null" THEN FALSE
    ELSE IF x.k = "inf" THEN TRUE
    ELSE IF y.k = "inf" THEN FALSE
    ELSE Abs(x.v) >= Abs(y.v)

\* C22: in the table returned, no row has a smaller absolute price_impact_pct
\* than a row after it.
C22_SortedByAbsoluteImpact ==
    spc = "done" =>
        \A i, j \in 1..Len(sOut.rows) :
            i < j => AbsNotBelow(sOut.rows[i].price_impact_pct, sOut.rows[j].price_impact_pct)

\* the freight was named before the tax rate, and the tax rate, worth 5.13 % of
\* the price, is listed before the freight, worth 0.92 %
C22_Witness ==
    /\ Analysed
    /\ Len(sRanges) >= 2
    /\ sRanges[1].param = "ocean_freight"
    /\ sRanges[2].param = "icms"
    /\ sOut.rows # <<>>
    /\ sOut.rows[1].parameter = "icms"
    /\ sOut.rows[1].price_impact_pct = Quot(513, 1)
    /\ \E n \in 2..Len(sOut.rows) :
          /\ sOut.rows[n].parameter = "ocean_freight"
          /\ sOut.rows[n].price_impact_pct = Quot(92, 1)

\* C23: the call always returns a table; when the fetch raises or the base
\* price cannot be computed the table is empty; otherwise every name of ranges
\* missing from base_params is warned about and has no row, and every other
\* name of ranges has its rows.
C23_NeverRaises ==
    spc = "done" =>
        /\ sOut.kind = "return"
        /\ (~Analysed => sOut.rows = <<>>)
        /\ (Analysed =>
              \A i \in 1..Len(sRanges) :
                  IF i \in KnownEntries
                  THEN \E n \in 1..Len(sOut.rows) : sOut.rows[n].parameter = sRanges[i].param
                  ELSE /\ sRanges[i].param \in sOut.warned
                       /\ \A n \in 1..Len(sOut.rows) :
                             sOut.rows[n].parameter # sRanges[i].param)

\* a name missing from base_params was skipped and the other names analysed
C23_Witness ==
    /\ Analysed
    /\ sOut.kind = "return"
    /\ sOut.warned # {}
    /\ KnownEntries # {}
    /\ Len(sOut.rows) = 2 * Cardinality(KnownEntries)

\* the fetch failed and the call returned an empty table
FetchFailureGivesEmptyTable ==
    /\ spc = "done"
    /\ sMarket.kind = "raise"
    /\ sRanges # <<>>
    /\ sOut = Analysis("return", <<>>, {})

----------------------------------------------------------------------------
(***************************************************************************)
(* check_user_rate_limit and check_rate_limit (src/modules/rate_limiter.py) *)
(* for one user id.  Times are whole seconds; a call is made 1 or 61       *)
(* seconds after the one before it.                                        *)
(***************************************************************************)

\* limits: (max_requests, window_seconds) of each action
limits ==
    [login |-> <<5, 300>>, report |-> <<10, 60>>, api |-> <<100, 60>>,
     general |-> <<200, 60>>]

\* limits.get(action, limits['general'])
LimitsOf(action) == IF action \in DOMAIN limits THEN limits[action] ELSE limits.general

\* the entries of the user's list kept at time t for a window
Recent(cache, t, window_seconds) == SelectSeq(cache, LAMBDA req_time : t - req_time < window_seconds)

\* check_rate_limit(user_id, max_requests, window_seconds) at time t: the list of
\* the key "user:<id>" is pruned to the window, then the call is refused when
\* the list is full and recorded otherwise
check_rate_limit(cache, t, max_requests, window_seconds) ==
    LET kept == Recent(cache, t, window_seconds)
    IN  IF Len(kept) >= max_requests THEN [allowed |-> FALSE, cache |-> kept]
        ELSE [allowed |-> TRUE, cache |-> Append(kept, t)]

check_user_rate_limit(cache, t, action) ==
    check_rate_limit(cache, t, LimitsOf(action)[1], LimitsOf(action)[2])

\* the actions callers name; "export" is not in limits
Actions == {"login", "report", "export"}

Steps == {1, 61}

InitRate ==
    /\ RateIdle
    /\ ValidateIdle
    /\ FetchIdle
    /\ CostIdle
    /\ FormulaIdle
    /\ VariationIdle
    /\ BacktestIdle
    /\ ConfidenceIdle
    /\ QualityIdle
    /\ SensitivityIdle

CheckUserRateLimit(action, dt) ==
    /\ Len(calls) < MaxCalls
    /\ now' = now + dt
    /\ LET res == check_user_rate_limit(rate_limit_cache, now + dt, action)
       IN  /\ rate_limit_cache' = res.cache
           /\ calls' = Append(calls, [action |-> action, at |-> now + dt,
                                      allowed |-> res.allowed])
    /\ UNCHANGED <<valVars, fetchVars, costVars, formulaVars, variationVars, backtestVars,
                   confVars, qualVars, sensVars>>

NextRate == \E action \in Actions, dt \in Steps : CheckUserRateLimit(action, dt)

SpecRate == InitRate /\ [][NextRate]_vars

----------------------------------------------------------------------------
(* Properties of the rate limiter *)

\* the allowed calls of an action made in the window that ends with call n
AllowedInWindow(action, n) ==
    {m \in 1..n :
        /\ calls[m].action = action
        /\ calls[m].allowed
        /\ calls[n].at - calls[m].at < LimitsOf(action)[2]}

\* no window holds more allowed calls of an action than its limit
QuotaKept(action) ==
    \A n \in 1..Len(calls) : Cardinality(AllowedInWindow(action, n)) <= LimitsOf(action)[1]

\* a call is refused only when its own action has used up its quota
QuotaOwn(action) ==
    \A n \in 1..Len(calls) :
        (calls[n].action = action /\ ~calls[n].allowed) =>
            Cardinality({m \in 1..(n - 1) :
                /\ calls[m].action = action
                /\ calls[m].allowed
                /\ calls[n].at - calls[m].at < LimitsOf(action)[2]}) >= LimitsOf(action)[1]

\* every recorded time is the time of an allowed call
DeniedNotRecorded ==
    \A i \in 1..Len(rate_limit_cache) :
        \E n \in 1..Len(calls) : calls[n].allowed /\ calls[n].at = rate_limit_cache[i]

\* C30: whatever calls one user makes, at most 5 'login' calls are allowed in
\* any 300 seconds and at most 10 'report' calls in any 60 seconds; a login is
\* refused only when 5 logins were allowed in the last 300 seconds, calls under
\* other actions not counting; and a refused call is not recorded.
C30_QuotaPerAction ==
    /\ QuotaKept("login")
    /\ QuotaKept("report")
    /\ QuotaOwn("login")
    /\ QuotaOwn("report")
    /\ DeniedNotRecorded

\* at most 5 logins are allowed in any 300 seconds
LoginQuotaKept == QuotaKept("login")

\* a login is refused only when the login quota is used up
LoginQuotaOwn == QuotaOwn("login")
====
